---- MODULE Spec2Model ----
(***************************************************************************)
(* Model of the portfolio page compiler: the block renderer of the page    *)
(* generator (renderBlock, BlockRenderers, processInlineFormatting) and    *)
(* the Markdown converter of the blog builder (markdownToHtml).            *)
(*                                                                         *)
(* A JavaScript string is a sequence of one-character strings.  Every      *)
(* String.prototype.replace(regex, ...) of the source is an operator that  *)
(* scans the sequence left to right the way the regular expression does    *)
(* under its flags (g: every match, after the end of the one before;       *)
(* m: ^ and $ at line breaks; s: . matches a line break).                  *)
(***************************************************************************)
EXTENDS Integers, Sequences, FiniteSets, TLC

VARIABLES pc, op, text, parts, block, pageConfig, result, dom, fetchedPosts, blog, exit,
          client

vars == <<pc, op, text, parts, block, pageConfig, result, dom, fetchedPosts, blog, exit,
          client>>

(***************************************************************************)
(* Bounds of the checked input sets.                                       *)
(***************************************************************************)
MaxInlineLen == 3
MaxPlain == 1
MaxMdLen == 3
MaxLines == 2
MaxItems == 2
\* the most composite blocks nested in one another
MaxDepth == 2
\* the most rows the fetch returns
MaxPosts == 2
\* the longest code of a code block
MaxCodeLen == 3
\* the most clicks on the menu trigger between two clicks elsewhere
MaxClicks == 9
\* the most blocks in the top-level list of a page of headings
MaxBlocks == 3

(***************************************************************************)
(* JavaScript values other than strings.                                   *)
(***************************************************************************)
\* undefined: the value of a field the object does not have
Undefined == <<"undefined">>

\* a value that is neither a string nor falsy, such as the number 5
NumberValue == <<"number">>

\* null, false and true
Null == <<"null">>
JsFalse == <<"false">>
JsTrue == <<"true">>

\* typeof v === 'string', for the values of the model
IsString(v) == v \notin {Undefined, NumberValue, Null, JsFalse, JsTrue}

\* !v for the values of the model: undefined, null, false and the empty
\* string are falsy
Truthy(v) == v \notin {Undefined, Null, JsFalse, <<>>}

\* what a template literal `${v}` puts into the string
ToStr(v) ==
    IF v = Undefined THEN <<"u", "n", "d", "e", "f", "i", "n", "e", "d">>
    ELSE IF v = Null THEN <<"n", "u", "l", "l">>
    ELSE v

\* v || d
OrElse(v, d) == IF Truthy(v) THEN v ELSE d

(***************************************************************************)
(* Results of a call: the returned string, a returned value that is not a  *)
(* string, or a thrown TypeError.                                          *)
(***************************************************************************)
Returned(s) == [kind |-> "string", val |-> s]
ReturnedObject == [kind |-> "object", val |-> <<>>]
ReturnedUndefined == [kind |-> "undefined", val |-> <<>>]
Thrown == [kind |-> "throw", val |-> <<>>]
NoResult == [kind |-> "none", val |-> <<>>]

(***************************************************************************)
(* Character classes of the regular expressions.                           *)
(***************************************************************************)
Digits == {"0", "1", "2", "3", "4", "5", "6", "7", "8", "9"}

Letters == {"a", "b", "c", "d", "e", "f", "g", "h", "i", "j", "k", "l", "m",
            "n", "o", "p", "q", "r", "s", "t", "u", "v", "w", "x", "y", "z",
            "A", "B", "C", "D", "E", "F", "G", "H", "I", "J", "K", "L", "M",
            "N", "O", "P", "Q", "R", "S", "T", "U", "V", "W", "X", "Y", "Z"}

\* the backtick character (the module's string syntax has no literal for it)
BT == "U+0060"

\* \s
IsSpace(c) == c \in {" ", "\n", "\t"}

\* a line terminator: what . does not match, and where ^ and $ match under m
IsNewline(c) == c = "\n"

\* \w
IsWord(c) == c \in Letters \/ c \in Digits \/ c = "_"

(***************************************************************************)
(* Scanning helpers.                                                       *)
(***************************************************************************)
\* the literal lit stands in s at index i
StartsAt(s, i, lit) ==
    /\ i + Len(lit) - 1 <= Len(s)
    /\ \A k \in 1..Len(lit) : s[i + k - 1] = lit[k]

\* s[i..j-1]
Slice(s, i, j) == SubSeq(s, i, j - 1)

\* ^ under the m flag: the start of the input or just after a line break
AtLineStart(s, i) == i = 1 \/ IsNewline(s[i - 1])

\* the least element of a set of indices, 0 for the empty set: a scan from
\* left to right stops at the first index where the pattern matches
Least(S) == IF S = {} THEN 0 ELSE CHOOSE p \in S : \A q \in S : p <= q

\* the element of a set of one element. A chain a.f().g() is written
\* Only({g(v) : v \in {f(a)}}): each call works on the value the call before
\* it returned, as each method of the chain does
Only(S) == CHOOSE v \in S : TRUE

\* the least index >= i where the literal stands, 0 when there is none
FindLit(s, i, lit) == Least({k \in i..Len(s) : StartsAt(s, k, lit)})

\* mutant: the search crosses line breaks, as . does under the s flag
FindLitOnLine_AcrossLines(s, i, lit) == FindLit(s, i, lit)

\* as FindLit, but the search may not cross a line break (. excludes it)
FindLitOnLine(s, i, lit) ==
    Least({k \in i..Len(s) : /\ StartsAt(s, k, lit)
                             /\ \A m \in i..(k - 1) : ~IsNewline(s[m])})

\* the index of the first character at or after i that is not white space
\* (Len(s) + 1 when there is none): where a greedy \s* ends
SkipSpace(s, i) ==
    IF i > Len(s) THEN i
    ELSE Least({k \in i..(Len(s) + 1) : k > Len(s) \/ ~IsSpace(s[k])})

\* the index of the line break ending the line of i (Len(s) + 1 on the last
\* line): where a greedy .* followed by $ ends
LineEnd(s, i) ==
    IF i > Len(s) THEN i
    ELSE Least({k \in i..(Len(s) + 1) : k > Len(s) \/ IsNewline(s[k])})

\* s.replace(/lit/g, rep) for a literal pattern
RECURSIVE ReplaceLitFrom(_, _, _, _)
ReplaceLitFrom(s, i, lit, rep) ==
    IF i > Len(s) THEN <<>>
    ELSE LET j == FindLit(s, i, lit)
         IN  IF j # 0
             THEN Slice(s, i, j) \o rep \o ReplaceLitFrom(s, j + Len(lit), lit, rep)
             ELSE Slice(s, i, Len(s) + 1)

ReplaceLit(s, lit, rep) == ReplaceLitFrom(s, 1, lit, rep)

\* s.replace(/d(.*?)d/g, open $1 close): the delimiter d, the shortest run
\* of characters of one line, the delimiter again
RECURSIVE ReplaceDelimFrom(_, _, _, _, _)
ReplaceDelimFrom(s, i, d, open, close) ==
    IF i > Len(s) THEN <<>>
    ELSE LET b == Least({k \in i..Len(s) : /\ StartsAt(s, k, d)
                                           /\ FindLitOnLine(s, k + Len(d), d) # 0})
         IN  IF b # 0
             THEN LET j == FindLitOnLine(s, b + Len(d), d)
                  IN  Slice(s, i, b) \o open \o Slice(s, b + Len(d), j) \o close
                          \o ReplaceDelimFrom(s, j + Len(d), d, open, close)
             ELSE Slice(s, i, Len(s) + 1)

ReplaceDelim(s, d, open, close) == ReplaceDelimFrom(s, 1, d, open, close)

\* the least index >= i of the character c, 0 when there is none
FindChar(s, i, c) == Least({k \in i..Len(s) : s[k] = c})

\* a match of /\[([^\]]+)\]\(([^)]+)\)/ at i: <<end of label, end of url>>
\* (the indices of the closing bracket and parenthesis), <<0, 0>> when it
\* does not match there
LinkAt(s, i) ==
    IF i > Len(s) \/ s[i] # "[" THEN <<0, 0>>
    ELSE LET j == FindChar(s, i + 1, "]")
         IN  IF j = 0 \/ j = i + 1 \/ j + 1 > Len(s) \/ s[j + 1] # "(" THEN <<0, 0>>
             ELSE LET k == FindChar(s, j + 2, ")")
                  IN  IF k = 0 \/ k = j + 2 THEN <<0, 0>> ELSE <<j, k>>

\* s.replace(/\[([^\]]+)\]\(([^)]+)\)/g, pre $2 mid $1 post)
RECURSIVE ReplaceLinkFrom(_, _, _, _, _)
ReplaceLinkFrom(s, i, pre, mid, post) ==
    IF i > Len(s) THEN <<>>
    ELSE LET b == Least({k \in i..Len(s) : LinkAt(s, k)[1] # 0})
         IN  IF b # 0
             THEN LET m == LinkAt(s, b)
                  IN  Slice(s, i, b) \o pre \o Slice(s, m[1] + 2, m[2]) \o mid
                          \o Slice(s, b + 1, m[1]) \o post
                          \o ReplaceLinkFrom(s, m[2] + 1, pre, mid, post)
             ELSE Slice(s, i, Len(s) + 1)

ReplaceLink(s, pre, mid, post) == ReplaceLinkFrom(s, 1, pre, mid, post)

(***************************************************************************)
(* The tags the substitutions write.                                       *)
(***************************************************************************)
StrongOpen == <<"<", "s", "t", "r", "o", "n", "g", ">">>
StrongClose == <<"<", "/", "s", "t", "r", "o", "n", "g", ">">>
EmOpen == <<"<", "e", "m", ">">>
EmClose == <<"<", "/", "e", "m", ">">>
CodeOpen == <<"<", "c", "o", "d", "e", ">">>
CodeClose == <<"<", "/", "c", "o", "d", "e", ">">>
AHref == <<"<", "a", " ", "h", "r", "e", "f", "=", "\"">>
AClassTextLink == <<"\"", " ", "c", "l", "a", "s", "s", "=", "\"", "t", "e", "x", "t",
                    "-", "l", "i", "n", "k", "\"", ">">>
AClose == <<"<", "/", "a", ">">>

(***************************************************************************)
(* processInlineFormatting: the four substitutions, in the source's order. *)
(***************************************************************************)
\* .replace(/\*\*(.*?)\*\*/g, '<strong>$1</strong>')
InlineBold(s) == ReplaceDelim(s, <<"*", "*">>, StrongOpen, StrongClose)

\* .replace(/\*(.*?)\*/g, '<em>$1</em>')
InlineItalic(s) == ReplaceDelim(s, <<"*">>, EmOpen, EmClose)

\* .replace(/`(.*?)`/g, '<code>$1</code>')
InlineCode(s) == ReplaceDelim(s, <<BT>>, CodeOpen, CodeClose)

\* .replace(/\[([^\]]+)\]\(([^)]+)\)/g, '<a href=$2 class=text-link>$1</a>'), quoted
InlineLink(s) == ReplaceLink(s, AHref, AClassTextLink, AClose)

\* mutant: italic is substituted before bold
processInlineFormatting_ItalicFirst(t) ==
    IF ~Truthy(t) THEN <<>>
    ELSE Only({InlineLink(v3) : v3 \in
         {InlineCode(v2) : v2 \in
         {InlineBold(v1) : v1 \in
         {InlineItalic(t)}}}})

\* called with strings and with absent fields only
processInlineFormatting(t) ==
    IF ~Truthy(t) THEN <<>>
    ELSE Only({InlineLink(v3) : v3 \in
         {InlineCode(v2) : v2 \in
         {InlineItalic(v1) : v1 \in
         {InlineBold(t)}}}})

(***************************************************************************)
(* markdownToHtml: the substitutions of the blog builder, each one         *)
(* .replace of the source, then their composition in the source's order.   *)
(***************************************************************************)
\* mutant: the escape leaves < as it is
MdEscape_KeepsAngle(s) ==
    Only({ReplaceLit(v1, <<">">>, <<"&", "g", "t", ";">>) : v1 \in
         {ReplaceLit(s, <<"&">>, <<"&", "a", "m", "p", ";">>)}})

\* .replace(/&/g, '&amp;').replace(/</g, '&lt;').replace(/>/g, '&gt;')
MdEscape(s) ==
    Only({ReplaceLit(v2, <<">">>, <<"&", "g", "t", ";">>) : v2 \in
         {ReplaceLit(v1, <<"<">>, <<"&", "l", "t", ";">>) : v1 \in
         {ReplaceLit(s, <<"&">>, <<"&", "a", "m", "p", ";">>)}}})

\* s.replace(/^prefix(.*$)/gim, open $1 close): the prefix at the start of
\* a line, then the rest of that line
RECURSIVE ReplaceHeaderFrom(_, _, _, _, _)
ReplaceHeaderFrom(s, i, prefix, open, close) ==
    IF i > Len(s) THEN <<>>
    ELSE LET b == Least({k \in i..Len(s) : AtLineStart(s, k) /\ StartsAt(s, k, prefix)})
         IN  IF b # 0
             THEN LET e == LineEnd(s, b + Len(prefix))
                  IN  Slice(s, i, b) \o open \o Slice(s, b + Len(prefix), e) \o close
                          \o ReplaceHeaderFrom(s, e, prefix, open, close)
             ELSE Slice(s, i, Len(s) + 1)

\* .replace(/^### (.*$)/gim, '<h3>$1</h3>')
MdH3(s) == ReplaceHeaderFrom(s, 1, <<"#", "#", "#", " ">>, <<"<", "h", "3", ">">>, <<"<", "/", "h", "3", ">">>)

\* .replace(/^## (.*$)/gim, '<h2>$1</h2>')
MdH2(s) == ReplaceHeaderFrom(s, 1, <<"#", "#", " ">>, <<"<", "h", "2", ">">>, <<"<", "/", "h", "2", ">">>)

\* .replace(/^# (.*$)/gim, '<h1>$1</h1>')
MdH1(s) == ReplaceHeaderFrom(s, 1, <<"#", " ">>, <<"<", "h", "1", ">">>, <<"<", "/", "h", "1", ">">>)

\* .replace(/\*\*(.*?)\*\*/g, '<strong>$1</strong>')
MdBold(s) == ReplaceDelim(s, <<"*", "*">>, StrongOpen, StrongClose)

\* .replace(/\*(.*?)\*/g, '<em>$1</em>')
MdItalic(s) == ReplaceDelim(s, <<"*">>, EmOpen, EmClose)

\* the index of the first character at or after i that is not a word
\* character: where a greedy \w* ends
SkipWord(s, i) ==
    IF i > Len(s) THEN i
    ELSE Least({k \in i..(Len(s) + 1) : k > Len(s) \/ ~IsWord(s[k])})

Fence == <<BT, BT, BT>>

\* a match of /```(\w*)\n([\s\S]*?)```/ at i: <<start of $2, start of the
\* closing fence>>, <<0, 0>> when it does not match there
FenceAt(s, i) ==
    IF ~StartsAt(s, i, Fence) THEN <<0, 0>>
    ELSE LET j == SkipWord(s, i + 3)
         IN  IF j > Len(s) \/ s[j] # "\n" THEN <<0, 0>>
             ELSE LET k == FindLit(s, j + 1, Fence)
                  IN  IF k = 0 THEN <<0, 0>> ELSE <<j + 1, k>>

RECURSIVE ReplaceFenceFrom(_, _)
ReplaceFenceFrom(s, i) ==
    IF i > Len(s) THEN <<>>
    ELSE LET b == Least({k \in i..Len(s) : FenceAt(s, k)[1] # 0})
         IN  IF b # 0
             THEN LET m == FenceAt(s, b)
                  IN  Slice(s, i, b)
                          \o <<"<", "p", "r", "e", ">", "<", "c", "o", "d", "e", ">">>
                          \o Slice(s, m[1], m[2])
                          \o <<"<", "/", "c", "o", "d", "e", ">", "<", "/", "p", "r", "e", ">">>
                          \o ReplaceFenceFrom(s, m[2] + 3)
             ELSE Slice(s, i, Len(s) + 1)

\* .replace(/```(\w*)\n([\s\S]*?)```/g, '<pre><code>$2</code></pre>')
MdCodeBlock(s) == ReplaceFenceFrom(s, 1)

\* .replace(/`(.*?)`/g, '<code>$1</code>')
MdInlineCode(s) == ReplaceDelim(s, <<BT>>, CodeOpen, CodeClose)

\* .replace(/\[([^\]]+)\]\(([^)]+)\)/g, '<a href=$2>$1</a>'), $2 quoted
MdLink(s) == ReplaceLink(s, AHref, <<"\"", ">">>, AClose)

\* the index of the first character at or after i that is not a digit:
\* where a greedy \d+ ends
SkipDigits(s, i) ==
    IF i > Len(s) THEN i
    ELSE Least({k \in i..(Len(s) + 1) : k > Len(s) \/ s[k] \notin Digits})

\* the index after the marker of a line-item pattern whose match starts at
\* i, 0 when the marker does not stand there:
\*   bullet   /^\s*[-*]/      ordered  /^\s*\d+\./      quote  /^>/
MarkerEnd(s, i, kind) ==
    LET j == IF kind = "quote" THEN i ELSE SkipSpace(s, i)
    IN  IF j > Len(s) THEN 0
        ELSE IF kind = "bullet" THEN (IF s[j] \in {"-", "*"} THEN j + 1 ELSE 0)
        ELSE IF kind = "quote" THEN (IF s[j] = ">" THEN j + 1 ELSE 0)
        ELSE LET d == SkipDigits(s, j)
             IN  IF d > j /\ d <= Len(s) /\ s[d] = "." THEN d + 1 ELSE 0

\* a match of /^marker\s+(.*$)/m at i: <<start of $1, end of $1>> (the end
\* is the index after its last character), <<0, 0>> when it does not match
LineItemAt(s, i, kind) ==
    IF ~AtLineStart(s, i) THEN <<0, 0>>
    ELSE LET m == MarkerEnd(s, i, kind)
         IN  IF m = 0 \/ m > Len(s) \/ ~IsSpace(s[m]) THEN <<0, 0>>
             ELSE LET k == SkipSpace(s, m)
                  IN  <<k, LineEnd(s, k)>>

RECURSIVE ReplaceLineItemFrom(_, _, _, _, _)
ReplaceLineItemFrom(s, i, kind, open, close) ==
    IF i > Len(s) THEN <<>>
    ELSE LET b == Least({k \in i..Len(s) : LineItemAt(s, k, kind)[1] # 0})
         IN  IF b # 0
             THEN LET m == LineItemAt(s, b, kind)
                  IN  Slice(s, i, b) \o open \o Slice(s, m[1], m[2]) \o close
                          \o ReplaceLineItemFrom(s, m[2], kind, open, close)
             ELSE Slice(s, i, Len(s) + 1)

LiOpen == <<"<", "l", "i", ">">>
LiClose == <<"<", "/", "l", "i", ">">>

\* .replace(/^\s*[-*]\s+(.*$)/gim, '<li>$1</li>')
MdUnorderedList(s) == ReplaceLineItemFrom(s, 1, "bullet", LiOpen, LiClose)

\* .replace(/^\s*\d+\.\s+(.*$)/gim, '<li>$1</li>')
MdOrderedList(s) == ReplaceLineItemFrom(s, 1, "ordered", LiOpen, LiClose)

\* .replace(/^>\s+(.*$)/gim, '<blockquote>$1</blockquote>')
MdBlockquote(s) ==
    ReplaceLineItemFrom(s, 1, "quote", <<"<", "b", "l", "o", "c", "k", "q", "u",
                                         "o",
                                         "t",
                                         "e",
                                         ">">>, <<"<", "/", "b", "l", "o",
                                                           "c",
                                                           "k",
                                                           "q",
                                                           "u",
                                                           "o",
                                                           "t",
                                                           "e",
                                                           ">">>)

RECURSIVE ReplaceRuleFrom(_, _)
ReplaceRuleFrom(s, i) ==
    IF i > Len(s) THEN <<>>
    ELSE LET b == Least({k \in i..Len(s) :
                            /\ AtLineStart(s, k)
                            /\ StartsAt(s, k, <<"-", "-", "-">>)
                            /\ (k + 3 > Len(s) \/ IsNewline(s[k + 3]))})
         IN  IF b # 0
             THEN Slice(s, i, b) \o <<"<", "h", "r", ">">> \o ReplaceRuleFrom(s, b + 3)
             ELSE Slice(s, i, Len(s) + 1)

\* .replace(/^---$/gim, '<hr>')
MdRule(s) == ReplaceRuleFrom(s, 1)

POpen == <<"<", "p", ">">>
PClose == <<"<", "/", "p", ">">>

\* .replace(/\n\n/g, '</p><p>')
MdParagraphs(s) == ReplaceLit(s, <<"\n", "\n">>, PClose \o POpen)

\* .replace(/\n/g, '<br>')
MdLineBreaks(s) == ReplaceLit(s, <<"\n">>, <<"<", "b", "r", ">">>)

\* html = '<p>' + html + '</p>'
MdWrap(s) == POpen \o s \o PClose

\* a match at i of the literals of lits with \s* between one and the
\* next: the index after the match, 0 when it does not match there
RECURSIVE MatchSpaced(_, _, _)
MatchSpaced(s, i, lits) ==
    IF ~StartsAt(s, i, Head(lits)) THEN 0
    ELSE IF Len(lits) = 1 THEN i + Len(Head(lits))
    ELSE MatchSpaced(s, SkipSpace(s, i + Len(Head(lits))), Tail(lits))

\* s.replace(/lit1\s*lit2.../g, rep)
RECURSIVE ReplaceSpacedFrom(_, _, _, _)
ReplaceSpacedFrom(s, i, lits, rep) ==
    IF i > Len(s) THEN <<>>
    ELSE LET b == Least({k \in i..Len(s) : MatchSpaced(s, k, lits) # 0})
         IN  IF b # 0
             THEN Slice(s, i, b) \o rep
                      \o ReplaceSpacedFrom(s, MatchSpaced(s, b, lits), lits, rep)
             ELSE Slice(s, i, Len(s) + 1)

\* mutant: empty paragraphs are left in place
CleanEmptyParagraphs_Skipped(s) == s

\* html.replace(/<p><\/p>/g, '')
CleanEmptyParagraphs(s) == ReplaceLit(s, POpen \o PClose, <<>>)

\* mutant: the paragraph opened before a heading is left in place
CleanBeforeHeading_Skipped(s) == s

\* html.replace(/<p>\s*<h/g, '<h')
CleanBeforeHeading(s) == ReplaceSpacedFrom(s, 1, <<POpen, <<"<", "h">>>>, <<"<", "h">>)

\* a match of /<\/h(\d)>\s*<\/p>/ at i: the index after it, 0 when none
HeadingCloseAt(s, i) ==
    IF /\ StartsAt(s, i, <<"<", "/", "h">>)
       /\ i + 4 <= Len(s)
       /\ s[i + 3] \in Digits
       /\ s[i + 4] = ">"
    THEN MatchSpaced(s, SkipSpace(s, i + 5), <<PClose>>)
    ELSE 0

RECURSIVE ReplaceHeadingCloseFrom(_, _)
ReplaceHeadingCloseFrom(s, i) ==
    IF i > Len(s) THEN <<>>
    ELSE LET b == Least({k \in i..Len(s) : HeadingCloseAt(s, k) # 0})
         IN  IF b # 0
             THEN Slice(s, i, b + 5) \o ReplaceHeadingCloseFrom(s, HeadingCloseAt(s, b))
             ELSE Slice(s, i, Len(s) + 1)

\* html.replace(/<\/h(\d)>\s*<\/p>/g, '</h$1>')
CleanAfterHeading(s) == ReplaceHeadingCloseFrom(s, 1)

\* html.replace(/<p>\s*<hr>\s*<\/p>/g, '<hr>')
CleanRule(s) == ReplaceSpacedFrom(s, 1, <<POpen, <<"<", "h", "r", ">">>, PClose>>, <<"<", "h",
                                                                       "r",
                                                                       ">">>)

\* html.replace(/<p>\s*<pre>/g, '<pre>')
CleanBeforePre(s) == ReplaceSpacedFrom(s, 1, <<POpen, <<"<", "p", "r", "e", ">">>>>, <<"<", "p", "r",
                                                                     "e",
                                                                     ">">>)

\* html.replace(/<\/pre>\s*<\/p>/g, '</pre>')
CleanAfterPre(s) == ReplaceSpacedFrom(s, 1, <<<<"<", "/", "p", "r", "e", ">">>, PClose>>, <<"<", "/",
                                                                      "p",
                                                                      "r",
                                                                      "e",
                                                                      ">">>)

\* html.replace(/<p>\s*<blockquote>/g, '<blockquote>')
CleanBeforeQuote(s) ==
    ReplaceSpacedFrom(s, 1, <<POpen, <<"<", "b", "l", "o", "c", "k", "q", "u", "o",
                                       "t",
                                       "e", ">">>>>, <<"<", "b", "l", "o", "c",
                                                           "k",
                                                           "q",
                                                           "u",
                                                           "o",
                                                           "t",
                                                           "e",
                                                           ">">>)

\* html.replace(/<\/blockquote>\s*<\/p>/g, '</blockquote>')
CleanAfterQuote(s) ==
    ReplaceSpacedFrom(s, 1, <<<<"<", "/", "b", "l", "o", "c", "k", "q", "u", "o",
                                "t", "e", ">">>, PClose>>, <<"<", "/", "b", "l",
                                                             "o",
                                                             "c",
                                                             "k",
                                                             "q",
                                                             "u",
                                                             "o",
                                                             "t",
                                                             "e",
                                                             ">">>)

\* a match of /(<li>.*?<\/li>)+/s at i: the index after it, 0 when none.
\* Each repetition is <li>, the shortest run of any characters, </li>; the
\* repetition takes as many as follow one another directly.
RECURSIVE LiRunEnd(_, _)
LiRunEnd(s, i) ==
    IF ~StartsAt(s, i, LiOpen) THEN 0
    ELSE LET k == FindLit(s, i + Len(LiOpen), LiClose)
         IN  IF k = 0 THEN 0
             ELSE LET e == k + Len(LiClose)
                      more == LiRunEnd(s, e)
                  IN  IF more # 0 THEN more ELSE e

RECURSIVE WrapListItemsFrom(_, _)
WrapListItemsFrom(s, i) ==
    IF i > Len(s) THEN <<>>
    ELSE LET b == Least({k \in i..Len(s) : LiRunEnd(s, k) # 0})
         IN  IF b # 0
             THEN LET e == LiRunEnd(s, b)
                  IN  Slice(s, i, b) \o <<"<", "u", "l", ">">> \o Slice(s, b, e)
                          \o <<"<", "/", "u", "l", ">">> \o WrapListItemsFrom(s, e)
             ELSE Slice(s, i, Len(s) + 1)

\* html.replace(/(<li>.*?<\/li>)+/gs, '<ul>$&</ul>')
WrapListItems(s) == WrapListItemsFrom(s, 1)

\* mutant: italic is substituted before bold
MdSubstitute_ItalicFirst(s) ==
    Only({MdLineBreaks(v14) : v14 \in
         {MdParagraphs(v13) : v13 \in
         {MdRule(v12) : v12 \in
         {MdBlockquote(v11) : v11 \in
         {MdOrderedList(v10) : v10 \in
         {MdUnorderedList(v9) : v9 \in
         {MdLink(v8) : v8 \in
         {MdInlineCode(v7) : v7 \in
         {MdCodeBlock(v6) : v6 \in
         {MdBold(v5) : v5 \in
         {MdItalic(v4) : v4 \in
         {MdH1(v3) : v3 \in
         {MdH2(v2) : v2 \in
         {MdH3(v1) : v1 \in
         {MdEscape(s)}}}}}}}}}}}}}}})

\* the chain of .replace calls that builds html from markdown
MdSubstitute(s) ==
    Only({MdLineBreaks(v14) : v14 \in
         {MdParagraphs(v13) : v13 \in
         {MdRule(v12) : v12 \in
         {MdBlockquote(v11) : v11 \in
         {MdOrderedList(v10) : v10 \in
         {MdUnorderedList(v9) : v9 \in
         {MdLink(v8) : v8 \in
         {MdInlineCode(v7) : v7 \in
         {MdCodeBlock(v6) : v6 \in
         {MdItalic(v5) : v5 \in
         {MdBold(v4) : v4 \in
         {MdH1(v3) : v3 \in
         {MdH2(v2) : v2 \in
         {MdH3(v1) : v1 \in
         {MdEscape(s)}}}}}}}}}}}}}}})

\* the clean-up statements after the paragraph wrap
MdCleanup(s) ==
    Only({CleanAfterQuote(v7) : v7 \in
         {CleanBeforeQuote(v6) : v6 \in
         {CleanAfterPre(v5) : v5 \in
         {CleanBeforePre(v4) : v4 \in
         {CleanRule(v3) : v3 \in
         {CleanAfterHeading(v2) : v2 \in
         {CleanBeforeHeading(v1) : v1 \in
         {CleanEmptyParagraphs(s)}}}}}}}})

\* mutant: the guard for an empty input returns nothing instead of ''
markdownToHtml_ReturnsNothing(markdown) ==
    IF ~Truthy(markdown) THEN ReturnedUndefined
    ELSE IF ~IsString(markdown) THEN Thrown
    ELSE Returned(Only({WrapListItems(v3) : v3 \in
              {MdCleanup(v2) : v2 \in
              {MdWrap(v1) : v1 \in
              {MdSubstitute(markdown)}}}}))

\* a value without a replace method makes the first .replace throw
markdownToHtml(markdown) ==
    IF ~Truthy(markdown) THEN Returned(<<>>)
    ELSE IF ~IsString(markdown) THEN Thrown
    ELSE Returned(Only({WrapListItems(v3) : v3 \in
              {MdCleanup(v2) : v2 \in
              {MdWrap(v1) : v1 \in
              {MdSubstitute(markdown)}}}}))

(***************************************************************************)
(* Blocks: a record of the fields the renderers read; a field the JSON     *)
(* object does not have reads as undefined.                                *)
(***************************************************************************)
\* the items field: absent, or an array of list items
NoItems == [defined |-> FALSE, list |-> <<>>]
Items(list) == [defined |-> TRUE, list |-> list]

EmptyBlock ==
    [type |-> Undefined, gradient |-> Undefined, src |-> Undefined, alt |-> Undefined,
     emoji |-> Undefined, text |-> Undefined, style |-> Undefined, items |-> NoItems,
     attribution |-> Undefined, code |-> Undefined, content |-> Undefined,
     height |-> Undefined, href |-> Undefined, target |-> Undefined,
     caption |-> Undefined, icon |-> Undefined, background |-> Undefined,
     title |-> Undefined, number |-> Undefined,
     \* content when it is an array of blocks (Array.isArray(block.content))
     contentBlocks |-> NoItems,
     columns |-> NoItems, blocks |-> NoItems, cards |-> NoItems]

NoBlock == EmptyBlock

\* a column of columns and threeColumns
Col(blocks, style) == [blocks |-> blocks, style |-> style]

\* a card of gallery
Card(title, href, cover) ==
    [title |-> title, href |-> href, cover |-> cover, icon |-> Undefined,
     subtitle |-> Undefined, description |-> Undefined]

\* a list item: a string, or an object with lead and text
StringItem(s) == [kind |-> "string", s |-> s, lead |-> Undefined, text |-> Undefined]
ObjectItem(lead, t) == [kind |-> "object", s |-> <<>>, lead |-> lead, text |-> t]

\* the strings a block's type holds, by name: the keys of BlockRenderers,
\* then none, foo and members of Object.prototype (proto is __proto__)
TypeName ==
    [
     cover |-> <<"c", "o", "v", "e", "r">>,
     icon |-> <<"i", "c", "o", "n">>,
     h1 |-> <<"h", "1">>,
     h2 |-> <<"h", "2">>,
     h3 |-> <<"h", "3">>,
     paragraph |-> <<"p", "a", "r", "a", "g", "r", "a", "p", "h">>,
     callout |-> <<"c", "a", "l", "l", "o", "u", "t">>,
     bulletList |-> <<"b", "u", "l", "l", "e", "t", "L", "i", "s", "t">>,
     numberedList |-> <<"n", "u", "m", "b", "e", "r", "e", "d", "L", "i", "s", "t">>,
     quote |-> <<"q", "u", "o", "t", "e">>,
     divider |-> <<"d", "i", "v", "i", "d", "e", "r">>,
     columns |-> <<"c", "o", "l", "u", "m", "n", "s">>,
     threeColumns |-> <<"t", "h", "r", "e", "e", "C", "o", "l", "u", "m", "n", "s">>,
     toggle |-> <<"t", "o", "g", "g", "l", "e">>,
     numberedToggle |-> <<"n", "u", "m", "b", "e", "r", "e", "d", "T", "o", "g", "g", "l", "e">>,
     button |-> <<"b", "u", "t", "t", "o", "n">>,
     link |-> <<"l", "i", "n", "k">>,
     code |-> <<"c", "o", "d", "e">>,
     image |-> <<"i", "m", "a", "g", "e">>,
     gallery |-> <<"g", "a", "l", "l", "e", "r", "y">>,
     toc |-> <<"t", "o", "c">>,
     spacer |-> <<"s", "p", "a", "c", "e", "r">>,
     centered |-> <<"c", "e", "n", "t", "e", "r", "e", "d">>,
     html |-> <<"h", "t", "m", "l">>,
     none |-> <<"n", "o", "n", "e">>,
     foo |-> <<"f", "o", "o">>,
     constructor |-> <<"c", "o", "n", "s", "t", "r", "u", "c", "t", "o", "r">>,
     toString |-> <<"t", "o", "S", "t", "r", "i", "n", "g">>,
     proto |-> <<"_", "_", "p", "r", "o", "t", "o", "_", "_">>,
     valueOf |-> <<"v", "a", "l", "u", "e", "O", "f">>,
     hasOwnProperty |-> <<"h", "a", "s", "O", "w", "n", "P", "r", "o", "p", "e", "r", "t", "y">>
    ]

RegisteredTypes ==
    {TypeName.cover, TypeName.icon, TypeName.h1, TypeName.h2, TypeName.h3, TypeName.paragraph, TypeName.callout, TypeName.bulletList,
     TypeName.numberedList, TypeName.quote, TypeName.divider, TypeName.columns, TypeName.threeColumns, TypeName.toggle,
     TypeName.numberedToggle, TypeName.button, TypeName.link, TypeName.code, TypeName.image, TypeName.gallery, TypeName.toc,
     TypeName.spacer, TypeName.centered, TypeName.html}

(***************************************************************************)
(* escapeHtml                                                              *)
(***************************************************************************)
\* mutant: the ampersand is replaced last, after the entities were written
escapeHtml_AmpersandLast(t) ==
    ReplaceLit(ReplaceLit(ReplaceLit(ReplaceLit(t,
        <<"<">>, <<"&", "l", "t", ";">>),
        <<">">>, <<"&", "g", "t", ";">>),
        <<"\"">>, <<"&", "q", "u", "o", "t", ";">>),
        <<"&">>, <<"&", "a", "m", "p", ";">>)

escapeHtml(t) ==
    ReplaceLit(ReplaceLit(ReplaceLit(ReplaceLit(t,
        <<"&">>, <<"&", "a", "m", "p", ";">>),
        <<"<">>, <<"&", "l", "t", ";">>),
        <<">">>, <<"&", "g", "t", ";">>),
        <<"\"">>, <<"&", "q", "u", "o", "t", ";">>)

(***************************************************************************)
(* BlockRenderers: one operator per key, each returning a result.          *)
(***************************************************************************)
\* const style = block.style ? ` style="${block.style}"` : ''
StyleAttr(b) ==
    IF Truthy(b.style) THEN <<" ", "s", "t", "y", "l", "e", "=", "\"">> \o b.style \o <<"\"">> ELSE <<>>

\* mutant: the image source is looked at before the gradient
Render_cover_SrcFirst(b) ==
    IF Truthy(b.src) \/ ~Truthy(b.gradient)
    THEN Returned(<<"<", "i", "m", "g", " ", "s", "r", "c", "=", "\"">> \o ToStr(b.src)
                  \o <<"\"", " ", "c", "l", "a", "s", "s", "=", "\"", "c", "o",
                       "v", "e", "r", "-", "i", "m", "a", "g",
                       "e", "\"", " ", "a", "l", "t", "=", "\"">>
                  \o OrElse(b.alt, <<>>) \o <<"\"", ">">>)
    ELSE Returned(<<"<", "d", "i", "v", " ", "c", "l", "a", "s", "s", "=", "\"",
                    "c", "o", "v", "e", "r", "-", "i", "m", "a",
                    "g", "e", "\"", " ", "s", "t", "y", "l", "e",
                    "=", "\"", "b", "a", "c", "k", "g", "r", "o",
                    "u", "n", "d", ":", " ">>
                  \o b.gradient \o <<";", " ", "h", "e", "i", "g", "h", "t", ":",
                                     " ", "3",
                                     "0", "v",
                                     "h", ";",
                                     "\"", ">",
                                     "<", "/",
                                     "d", "i",
                                     "v", ">">>)

Render_cover(b) ==
    IF Truthy(b.gradient)
    THEN Returned(<<"<", "d", "i", "v", " ", "c", "l", "a", "s", "s", "=", "\"",
                    "c", "o", "v", "e", "r", "-", "i", "m", "a",
                    "g", "e", "\"", " ", "s", "t", "y", "l", "e",
                    "=", "\"", "b", "a", "c", "k", "g", "r", "o",
                    "u", "n", "d", ":", " ">>
                  \o b.gradient \o <<";", " ", "h", "e", "i", "g", "h", "t", ":",
                                     " ", "3",
                                     "0", "v",
                                     "h", ";",
                                     "\"", ">",
                                     "<", "/",
                                     "d", "i",
                                     "v", ">">>)
    ELSE Returned(<<"<", "i", "m", "g", " ", "s", "r", "c", "=", "\"">> \o ToStr(b.src)
                  \o <<"\"", " ", "c", "l", "a", "s", "s", "=", "\"", "c", "o",
                       "v", "e", "r", "-", "i", "m", "a", "g",
                       "e", "\"", " ", "a", "l", "t", "=", "\"">>
                  \o OrElse(b.alt, <<>>) \o <<"\"", ">">>)

Render_icon(b) ==
    IF b.type = TypeName.none THEN Returned(<<>>)
    ELSE IF b.type = TypeName.image
    THEN Returned(<<"<", "d", "i", "v", " ", "c", "l", "a", "s", "s", "=", "\"",
                    "p", "a", "g", "e", "-", "i", "c", "o", "n",
                    "\"", ">", "<", "i", "m", "g", " ", "s", "r",
                    "c", "=", "\"">> \o ToStr(b.src)
                  \o <<"\"", " ", "a", "l", "t", "=", "\"", "\"", ">", "<", "/",
                       "d", "i", "v", ">">>)
    ELSE Returned(<<"<", "d", "i", "v", " ", "c", "l", "a", "s", "s", "=", "\"",
                    "p", "a", "g", "e", "-", "i", "c", "o", "n",
                    "\"", ">">> \o ToStr(b.emoji) \o <<"<", "/", "d",
                                                                     "i",
                                                                     "v",
                                                                     ">">>)

Render_h1(b) ==
    Returned(<<"<", "h", "1", " ", "c", "l", "a", "s", "s", "=", "\"", "p", "a",
               "g", "e", "-", "t", "i", "t", "l", "e", "\"">> \o StyleAttr(b) \o <<">">>
             \o ToStr(b.text) \o <<"<", "/", "h", "1", ">">>)

\* mutant: the heading text goes through the inline transform
Render_h2_Formatted(b) ==
    Returned(<<"<", "h", "2">> \o StyleAttr(b) \o <<">">>
             \o processInlineFormatting(ToStr(b.text)) \o <<"<", "/", "h", "2", ">">>)

Render_h2(b) ==
    Returned(<<"<", "h", "2">> \o StyleAttr(b) \o <<">">> \o ToStr(b.text) \o <<"<", "/",
                                                                      "h",
                                                                      "2",
                                                                      ">">>)

Render_h3(b) ==
    Returned(<<"<", "h", "3">> \o StyleAttr(b) \o <<">">> \o ToStr(b.text) \o <<"<", "/",
                                                                      "h",
                                                                      "3",
                                                                      ">">>)

Render_paragraph(b) ==
    Returned(<<"<", "p">> \o StyleAttr(b) \o <<">">>
             \o processInlineFormatting(b.text) \o <<"<", "/", "p", ">">>)

\* the separator between a lead and its text, as the bytes of the source
\* file spell it: U+201A U+00C4 U+00EE between two spaces
LeadSeparator == <<" ", "U+201A", "U+00C4", "U+00EE", " ">>

\* one element of block.items.map(item => ...)
RenderItem(item) ==
    IF item.kind = "string"
    THEN <<"<", "l", "i", ">">> \o processInlineFormatting(item.s) \o <<"<", "/", "l", "i", ">">>
    ELSE <<"<", "l", "i", ">", "<", "s", "t", "r", "o", "n", "g", ">">> \o ToStr(item.lead) \o <<"<", "/", "s", "t", "r", "o",
                                                   "n",
                                                   "g",
                                                   ">">>
         \o (IF Truthy(item.text) THEN LeadSeparator \o item.text ELSE <<>>)
         \o <<"<", "/", "l", "i", ">">>

\* list.join(sep)
RECURSIVE Join(_, _)
Join(list, sep) ==
    IF Len(list) = 0 THEN <<>>
    ELSE IF Len(list) = 1 THEN list[1]
    ELSE list[1] \o sep \o Join(Tail(list), sep)

\* block.items.map(...).join('\n')
RenderItems(items) == Join([k \in 1..Len(items) |-> RenderItem(items[k])], <<"\n">>)

Render_bulletList(b) ==
    IF ~b.items.defined THEN Thrown
    ELSE Returned(<<"<", "u", "l", ">", "\n">> \o RenderItems(b.items.list) \o <<"\n", "<", "/", "u", "l",
                                                          ">">>)

Render_numberedList(b) ==
    IF ~b.items.defined THEN Thrown
    ELSE Returned(<<"<", "o", "l", ">", "\n">> \o RenderItems(b.items.list) \o <<"\n", "<", "/", "o", "l",
                                                          ">">>)

Render_quote(b) ==
    Returned(<<"<", "b", "l", "o", "c", "k", "q", "u", "o", "t", "e", ">">> \o processInlineFormatting(b.text)
             \o (IF Truthy(b.attribution)
                 THEN <<"<", "c", "i", "t", "e", ">", "U+201A", "U+00C4", "U+00EE",
                        " ">> \o b.attribution \o <<"<", "/", "c", "i", "t",
                                                           "e",
                                                           ">">>
                 ELSE <<>>)
             \o <<"<", "/", "b", "l", "o", "c", "k", "q", "u", "o", "t", "e", ">">>)

Render_divider(b) == Returned(<<"<", "h", "r", ">">>)

Render_button(b) ==
    Returned(<<"<", "a", " ", "h", "r", "e", "f", "=", "\"">> \o ToStr(b.href) \o <<"\"", " ", "c", "l", "a", "s",
                                                 "s",
                                                 "=",
                                                 "\"",
                                                 "n",
                                                 "o",
                                                 "t",
                                                 "i",
                                                 "o",
                                                 "n",
                                                 "-",
                                                 "b",
                                                 "u",
                                                 "t",
                                                 "t",
                                                 "o",
                                                 "n",
                                                 " ">>
             \o OrElse(b.style, <<"p", "r", "i", "m", "a", "r", "y">>) \o <<"\"", " ", "t", "a", "r", "g",
                                                  "e",
                                                  "t",
                                                  "=",
                                                  "\"">>
             \o OrElse(b.target, <<"_", "s", "e", "l", "f">>) \o <<"\"", ">">> \o ToStr(b.text) \o <<"<",
                                                                            "/",
                                                                            "a",
                                                                            ">">>)

Render_link(b) ==
    Returned(<<"<", "a", " ", "h", "r", "e", "f", "=", "\"">> \o ToStr(b.href) \o <<"\"", " ", "c", "l", "a", "s",
                                                 "s",
                                                 "=",
                                                 "\"",
                                                 "t",
                                                 "e",
                                                 "x",
                                                 "t",
                                                 "-",
                                                 "l",
                                                 "i",
                                                 "n",
                                                 "k",
                                                 "\"",
                                                 ">">>
             \o ToStr(b.text) \o <<"<", "/", "a", ">">>)

Render_code(b) ==
    IF b.code = Undefined THEN Thrown
    ELSE Returned(<<"<", "d", "i", "v", " ", "c", "l", "a", "s", "s", "=", "\"",
                    "c", "o", "d", "e", "-", "b", "l", "o", "c",
                    "k", "\"", ">">> \o escapeHtml(b.code) \o <<"<", "/",
                                                                          "d",
                                                                          "i",
                                                                          "v",
                                                                          ">">>)

Render_image(b) ==
    Returned(<<"<", "f", "i", "g", "u", "r", "e", " ", "c", "l", "a", "s", "s",
               "=", "\"", "n", "o", "t", "i", "o", "n", "-", "i", "m",
               "a", "g", "e", "\"", ">", "<", "i", "m", "g", " ", "s",
               "r", "c", "=", "\"">> \o ToStr(b.src)
             \o <<"\"", " ", "a", "l", "t", "=", "\"">> \o OrElse(b.alt, <<>>) \o <<"\"", ">">>
             \o (IF Truthy(b.caption)
                 THEN <<"<", "f", "i", "g", "c", "a", "p", "t", "i", "o", "n", ">">> \o b.caption \o <<"<", "/", "f", "i", "g",
                                                         "c",
                                                         "a",
                                                         "p",
                                                         "t",
                                                         "i",
                                                         "o",
                                                         "n",
                                                         ">">>
                 ELSE <<>>)
             \o <<"<", "/", "f", "i", "g", "u", "r", "e", ">">>)

Render_toc(b) ==
    Returned(<<"<", "n", "a", "v", " ", "c", "l", "a", "s", "s", "=", "\"", "n",
               "o", "t", "i", "o", "n", "-", "t", "o", "c", "\"", ">",
               "<", "d", "i", "v", " ", "c", "l", "a", "s", "s", "=",
               "\"", "t", "o", "c", "-", "t", "i", "t", "l", "e",
               "\"", ">", "O", "n", " ", "t", "h", "i", "s", " ", "p",
               "a", "g", "e", "<", "/", "d", "i", "v", ">">>
             \o <<"<", "d", "i", "v", " ", "i", "d", "=", "\"", "t", "o", "c", "-",
                  "l", "i", "n", "k", "s", "\"", ">", "<", "/",
                  "d", "i", "v", ">", "<", "/", "n", "a", "v", ">">>)

Render_spacer(b) ==
    Returned(<<"<", "d", "i", "v", " ", "s", "t", "y", "l", "e", "=", "\"", "h",
               "e", "i", "g", "h", "t", ":", " ">> \o OrElse(b.height, <<"2", "4", "p", "x">>) \o <<";", "\"",
                                                                         ">",
                                                                         "<",
                                                                         "/",
                                                                         "d",
                                                                         "i",
                                                                         "v",
                                                                         ">">>)

Render_html(b) ==
    IF b.content = Undefined THEN ReturnedUndefined ELSE Returned(b.content)

(***************************************************************************)
(* Composite renderers: they call renderBlock on the blocks they hold.     *)
(***************************************************************************)
RECURSIVE renderBlock(_)

\* what Array.prototype.join puts into the string for one element
JoinStr(r) ==
    CASE r.kind = "string" -> r.val
      [] r.kind = "undefined" -> <<>>
      [] r.kind = "object" -> <<"[", "o", "b", "j", "e", "c", "t", " ", "O", "b",
                                "j", "e", "c", "t",
                                "]">>

\* mutant: the blocks are joined without being rendered
MapRenderBlock_Unrendered(list, sep) ==
    Returned(Join([k \in 1..Len(list) |-> JoinStr(ReturnedObject)], sep))

\* mutant: a block whose rendering throws is left out of the list
MapRenderBlock_SkipsFailed(list, sep) ==
    LET rs == [k \in 1..Len(list) |-> renderBlock(list[k])]
    IN  Returned(Join([k \in 1..Len(list) |->
                          IF rs[k].kind = "throw" THEN <<>> ELSE JoinStr(rs[k])], sep))

\* list.map(renderBlock).join(sep); a throwing call ends the map
MapRenderBlock(list, sep) ==
    LET rs == [k \in 1..Len(list) |-> renderBlock(list[k])]
    IN  IF \E k \in 1..Len(list) : rs[k].kind = "throw" THEN Thrown
        ELSE Returned(Join([k \in 1..Len(list) |-> JoinStr(rs[k])], sep))

\* content of callout, toggle and numberedToggle: an array of blocks, or
\* text wrapped by open and close
ContentOf(b, open, close) ==
    IF b.contentBlocks.defined THEN MapRenderBlock(b.contentBlocks.list, <<"\n">>)
    ELSE Returned(open \o processInlineFormatting(b.content) \o close)

Render_callout(b) ==
    LET icon == IF Truthy(b.icon)
                THEN <<"<", "d", "i", "v", " ", "c", "l", "a", "s", "s", "=", "\"",
                       "c", "a", "l", "l", "o", "u", "t", "-",
                       "i", "c", "o", "n", "\"", ">">> \o b.icon \o <<"<", "/", "d",
                                                                   "i",
                                                                   "v",
                                                                   ">">>
                ELSE <<>>
        bgStyle == IF Truthy(b.background)
                   THEN <<" ", "s", "t", "y", "l", "e", "=", "\"", "b", "a", "c",
                          "k", "g", "r", "o", "u", "n",
                          "d", ":", " ">> \o b.background \o <<";", "\"">>
                   ELSE <<>>
        content == ContentOf(b, <<"<", "d", "i", "v", " ", "c", "l", "a", "s", "s",
                                  "=", "\"", "c",
                                  "a", "l", "l",
                                  "o", "u", "t",
                                  "-", "c", "o",
                                  "n", "t", "e",
                                  "n", "t", "\"",
                                  ">">>, <<"<", "/", "d",
                                                                     "i",
                                                                     "v",
                                                                     ">">>)
    IN  IF content.kind = "throw" THEN Thrown
        ELSE Returned(<<"<", "d", "i", "v", " ", "c", "l", "a", "s", "s", "=",
                        "\"", "c", "a", "l", "l", "o", "u",
                        "t", "\"">> \o bgStyle \o <<">">> \o icon
                      \o content.val \o <<"<", "/", "d", "i", "v", ">">>)

\* one element of block.columns.map(col => ...)
RenderCol(col, class, styled) ==
    IF ~col.blocks.defined THEN Thrown
    ELSE LET content == MapRenderBlock(col.blocks.list, <<"\n">>)
             style == IF styled /\ Truthy(col.style)
                      THEN <<" ", "s", "t", "y", "l", "e", "=", "\"">> \o col.style \o <<"\"">>
                      ELSE <<>>
         IN  IF content.kind = "throw" THEN Thrown
             ELSE Returned(<<"<", "d", "i", "v", " ", "c", "l", "a", "s", "s", "=",
                             "\"">> \o class \o <<"\"">> \o style \o <<">", "\n">>
                           \o content.val \o <<"\n", "<", "/", "d", "i", "v", ">">>)

\* block.columns.map(col => ...).join('\n') inside the row wrapper
RenderRow(b, rowClass, colClass, styled) ==
    IF ~b.columns.defined THEN Thrown
    ELSE LET cols == [k \in 1..Len(b.columns.list) |->
                         RenderCol(b.columns.list[k], colClass, styled)]
         IN  IF \E k \in 1..Len(cols) : cols[k].kind = "throw" THEN Thrown
             ELSE Returned(<<"<", "d", "i", "v", " ", "c", "l", "a", "s", "s", "=",
                             "\"">> \o rowClass \o <<"\"", ">", "\n">>
                           \o Join([k \in 1..Len(cols) |-> cols[k].val], <<"\n">>)
                           \o <<"\n", "<", "/", "d", "i", "v", ">">>)

Render_columns(b) == RenderRow(b, <<"n", "o", "t", "i", "o", "n", "-", "r", "o", "w">>, <<"n", "o", "t", "i", "o", "n",
                                                    "-",
                                                    "c",
                                                    "o",
                                                    "l">>, TRUE)

Render_threeColumns(b) == RenderRow(b, <<"n", "o", "t", "i", "o", "n", "-", "r",
                                         "o",
                                         "w",
                                         "-",
                                         "3">>, <<"n", "o", "t", "i", "o",
                                                           "n",
                                                           "-",
                                                           "c",
                                                           "o",
                                                           "l",
                                                           "-",
                                                           "3">>, FALSE)

Render_toggle(b) ==
    LET c == ContentOf(b, <<"<", "p", ">">>, <<"<", "/", "p", ">">>)
        content == c.val
    IN  IF c.kind = "throw" THEN Thrown
        ELSE Returned(
            <<"\n", "<", "d", "e", "t", "a", "i", "l", "s", " ", "c", "l", "a",
              "s", "s", "=", "\"", "n", "o", "t", "i", "o", "n", "-",
              "t", "o", "g", "g", "l", "e", "\"", ">", "\n", " ", " ",
              " ", " ", "<", "s", "u", "m", "m", "a", "r", "y", ">",
              "\n", " ", " ", " ", " ", " ", " ", " ", " ", "<", "d",
              "i", "v", " ", "c", "l", "a", "s", "s", "=", "\"", "t",
              "o", "g", "g", "l", "e", "-", "t", "r", "i", "a", "n",
              "g", "l", "e", "\"", ">", "U+201A", "U+00F1", "U+2202",
              "<", "/", "d", "i", "v", ">", "\n", " ", " ", " ", " ",
              " ", " ", " ", " ", "<", "s", "p", "a", "n", ">">>
            \o ToStr(b.title)
            \o <<"<", "/", "s", "p", "a", "n", ">", "\n", " ", " ", " ", " ", "<",
              "/", "s", "u", "m", "m", "a", "r", "y", ">", "\n", " ",
              " ", " ", " ", "<", "d", "i", "v", " ", "c", "l", "a",
              "s", "s", "=", "\"", "t", "o", "g", "g", "l", "e", "-",
              "c", "o", "n", "t", "e", "n", "t", "\"", ">", "\n", " ",
              " ", " ", " ", " ", " ", " ", " ">>
            \o content
            \o <<"\n", " ", " ", " ", " ", "<", "/", "d", "i", "v", ">", "\n", "<",
              "/", "d", "e", "t", "a", "i", "l", "s", ">">>)

Render_numberedToggle(b) ==
    LET c == ContentOf(b, <<"<", "p", ">">>, <<"<", "/", "p", ">">>)
        content == c.val
    IN  IF c.kind = "throw" THEN Thrown
        ELSE Returned(
            <<"\n", "<", "d", "e", "t", "a", "i", "l", "s", " ", "c", "l", "a",
              "s", "s", "=", "\"", "n", "o", "t", "i", "o", "n", "-",
              "t", "o", "g", "g", "l", "e", " ", "n", "u", "m", "b",
              "e", "r", "e", "d", "-", "t", "o", "g", "g", "l", "e",
              "\"", ">", "\n", " ", " ", " ", " ", "<", "s", "u", "m",
              "m", "a", "r", "y", ">", "\n", " ", " ", " ", " ", " ",
              " ", " ", " ", "<", "d", "i", "v", " ", "c", "l", "a",
              "s", "s", "=", "\"", "t", "o", "g", "g", "l", "e", "-",
              "n", "u", "m", "b", "e", "r", "\"", ">">>
            \o ToStr(b.number)
            \o <<"<", "/", "d", "i", "v", ">", "\n", " ", " ", " ", " ", " ", " ",
              " ", " ", "<", "s", "p", "a", "n", ">">>
            \o ToStr(b.title)
            \o <<"<", "/", "s", "p", "a", "n", ">", "\n", " ", " ", " ", " ", "<",
              "/", "s", "u", "m", "m", "a", "r", "y", ">", "\n", " ",
              " ", " ", " ", "<", "d", "i", "v", " ", "c", "l", "a",
              "s", "s", "=", "\"", "t", "o", "g", "g", "l", "e", "-",
              "c", "o", "n", "t", "e", "n", "t", "\"", ">", "\n", " ",
              " ", " ", " ", " ", " ", " ", " ">>
            \o content
            \o <<"\n", " ", " ", " ", " ", "<", "/", "d", "i", "v", ">", "\n", "<",
              "/", "d", "e", "t", "a", "i", "l", "s", ">">>)

\* one element of block.cards.map(card => ...)
RenderCard(card) ==
    <<"\n", "<", "d", "i", "v", " ", "c", "l", "a", "s", "s", "=", "\"", "g", "a",
      "l", "l", "e", "r", "y", "-", "c", "a", "r", "d", "\"">>
    \o (IF Truthy(card.href)
         THEN <<" ", "o", "n", "c", "l", "i", "c", "k", "=", "\"", "w", "i", "n",
                "d", "o", "w", ".", "l", "o", "c", "a", "t", "i",
                "o", "n", "=", "'">>
              \o card.href \o <<"'", "\"">>
         ELSE <<>>)
    \o <<">", "\n", " ", " ", " ", " ">>
    \o (IF Truthy(card.cover)
         THEN <<"<", "i", "m", "g", " ", "c", "l", "a", "s", "s", "=", "\"", "g",
                "a", "l", "l", "e", "r", "y", "-", "c", "o", "v",
                "e", "r", "\"", " ", "s", "r", "c", "=", "\"">>
              \o card.cover \o <<"\"", " ", "a", "l", "t", "=", "\"">> \o ToStr(card.title) \o <<"\"", ">">>
         ELSE <<>>)
    \o <<"\n", " ", " ", " ", " ", "<", "d", "i", "v", " ", "c", "l", "a", "s", "s",
      "=", "\"", "g", "a", "l", "l", "e", "r", "y", "-", "c", "o", "n", "t",
      "e", "n", "t", "\"", ">", "\n", " ", " ", " ", " ", " ", " ", " ", " ",
      "<", "d", "i", "v", " ", "c", "l", "a", "s", "s", "=", "\"", "g", "a",
      "l", "l", "e", "r", "y", "-", "t", "i", "t", "l", "e", "\"", ">">>
    \o OrElse(card.icon, <<>>)
    \o <<" ">>
    \o ToStr(card.title)
    \o <<"<", "/", "d", "i", "v", ">", "\n", " ", " ", " ", " ", " ", " ", " ", " ">>
    \o (IF Truthy(card.subtitle)
         THEN <<"<", "d", "i", "v", " ", "c", "l", "a", "s", "s", "=", "\"", "g",
                "a", "l", "l", "e", "r", "y", "-", "s", "u", "b",
                "t", "i", "t", "l", "e", "\"", ">">>
              \o card.subtitle \o <<"<", "/", "d", "i", "v", ">">>
         ELSE <<>>)
    \o <<"\n", " ", " ", " ", " ", " ", " ", " ", " ">>
    \o (IF Truthy(card.description)
         THEN <<"<", "d", "i", "v", " ", "c", "l", "a", "s", "s", "=", "\"", "g",
                "a", "l", "l", "e", "r", "y", "-", "d", "e", "s",
                "c", "r", "i", "p", "t", "i", "o", "n", "\"", ">">>
              \o card.description \o <<"<", "/", "d", "i", "v", ">">>
         ELSE <<>>)
    \o <<"\n", " ", " ", " ", " ", "<", "/", "d", "i", "v", ">", "\n", "<", "/", "d",
      "i", "v", ">">>

Render_gallery(b) ==
    IF ~b.cards.defined THEN Thrown
    ELSE Returned(<<"<", "d", "i", "v", " ", "c", "l", "a", "s", "s", "=", "\"",
                    "g", "a", "l", "l", "e", "r", "y", "-", "g",
                    "r", "i", "d", "\"", ">", "\n">>
                  \o Join([k \in 1..Len(b.cards.list) |-> RenderCard(b.cards.list[k])],
                          <<"\n">>)
                  \o <<"\n", "<", "/", "d", "i", "v", ">">>)

Render_centered(b) ==
    IF ~b.blocks.defined THEN Thrown
    ELSE LET content == MapRenderBlock(b.blocks.list, <<"\n">>)
         IN  IF content.kind = "throw" THEN Thrown
             ELSE Returned(<<"<", "d", "i", "v", " ", "c", "l", "a", "s", "s", "=",
                             "\"", "c", "e", "n", "t",
                             "e", "r", "e", "d", "-",
                             "b", "l", "o", "c", "k",
                             "\"", ">", "\n">> \o content.val
                           \o <<"\n", "<", "/", "d", "i", "v", ">">>)

\* renderer(block) for an own key of BlockRenderers
CallRenderer(b) ==
    CASE b.type = TypeName.cover -> Render_cover(b)
      [] b.type = TypeName.icon -> Render_icon(b)
      [] b.type = TypeName.h1 -> Render_h1(b)
      [] b.type = TypeName.h2 -> Render_h2(b)
      [] b.type = TypeName.h3 -> Render_h3(b)
      [] b.type = TypeName.paragraph -> Render_paragraph(b)
      [] b.type = TypeName.bulletList -> Render_bulletList(b)
      [] b.type = TypeName.numberedList -> Render_numberedList(b)
      [] b.type = TypeName.quote -> Render_quote(b)
      [] b.type = TypeName.divider -> Render_divider(b)
      [] b.type = TypeName.button -> Render_button(b)
      [] b.type = TypeName.link -> Render_link(b)
      [] b.type = TypeName.code -> Render_code(b)
      [] b.type = TypeName.image -> Render_image(b)
      [] b.type = TypeName.toc -> Render_toc(b)
      [] b.type = TypeName.spacer -> Render_spacer(b)
      [] b.type = TypeName.html -> Render_html(b)
      [] b.type = TypeName.callout -> Render_callout(b)
      [] b.type = TypeName.columns -> Render_columns(b)
      [] b.type = TypeName.threeColumns -> Render_threeColumns(b)
      [] b.type = TypeName.toggle -> Render_toggle(b)
      [] b.type = TypeName.numberedToggle -> Render_numberedToggle(b)
      [] b.type = TypeName.gallery -> Render_gallery(b)
      [] b.type = TypeName.centered -> Render_centered(b)

(***************************************************************************)
(* BlockRenderers[block.type]: BlockRenderers is an object literal, so a   *)
(* key it does not own is looked up on Object.prototype.                   *)
(***************************************************************************)
\* what BlockRenderers[key] evaluates to
Lookup(key) ==
    IF key \in RegisteredTypes THEN "renderer"
    ELSE IF key = TypeName.constructor THEN "Object"
    ELSE IF key = TypeName.toString THEN "Object.prototype.toString"
    ELSE IF key = TypeName.proto THEN "Object.prototype"
    ELSE IF key \in {TypeName.valueOf, TypeName.hasOwnProperty} THEN "Object.prototype method"
    ELSE "undefined"

UnknownComment(t) == <<"<", "!", "-", "-", " ", "U", "n", "k", "n", "o", "w", "n",
                       " ", "b", "l", "o", "c", "k", " ", "t",
                       "y", "p", "e", ":", " ">> \o ToStr(t) \o <<" ", "-", "-",
                                                                    ">">>

renderBlock(b) ==
    LET renderer == Lookup(ToStr(b.type))
    IN  CASE renderer = "undefined" -> Returned(UnknownComment(b.type))
          [] renderer = "renderer" -> CallRenderer(b)
          \* Object(block) returns the block itself
          [] renderer = "Object" -> ReturnedObject
          \* Object.prototype.toString with this undefined
          [] renderer = "Object.prototype.toString" -> Returned(<<"[", "o", "b",
                                                                  "j",
                                                                  "e",
                                                                  "c",
                                                                  "t",
                                                                  " ",
                                                                  "U",
                                                                  "n",
                                                                  "d",
                                                                  "e",
                                                                  "f",
                                                                  "i",
                                                                  "n",
                                                                  "e",
                                                                  "d",
                                                                  "]">>)
          \* an object is not callable
          [] renderer = "Object.prototype" -> Thrown
          \* valueOf, hasOwnProperty: ToObject(undefined) throws
          [] renderer = "Object.prototype method" -> Thrown

(***************************************************************************)
(* The NavCover component (lib/navcover.js).                               *)
(***************************************************************************)
BASE_URL ==
    <<"h", "t", "t", "p", "s", ":", "/", "/", "9", "9", "p", "a", "b", "l", "o",
      "s", ".", "c", "o", "m">>

DEFAULT_COVER ==
    <<"h", "t", "t", "p", "s", ":", "/", "/", "c", "v", "a", "u", "j", "k", "h",
      "x", "g", "z", "r", "q", "w", "q", "j", "o", "f", "g", "l", "s", ".",
      "s", "u", "p", "a", "b", "a", "s", "e", ".", "c", "o", "/", "s", "t",
      "o", "r", "a", "g", "e", "/", "v", "1", "/", "o", "b", "j", "e", "c",
      "t", "/", "p", "u", "b", "l", "i", "c", "/", "s", "i", "t", "e", "-",
      "i", "m", "a", "g", "e", "s", "/", "G", "e", "m", "i", "n", "i", "_",
      "G", "e", "n", "e", "r", "a", "t", "e", "d", "_", "I", "m", "a", "g",
      "e", "_", "7", "c", "e", "f", "u", "7", "c", "e", "f", "u", "7", "c",
      "e", "f", "u", "7", "_", "f", "o", "r", "m", "p", "h", "o", "t", "o",
      "e", "d", "i", "t", "o", "r", ".", "c", "o", "m", ".", "j", "p", "g">>

PROFILE_IMAGE ==
    <<"h", "t", "t", "p", "s", ":", "/", "/", "9", "9", "p", "a", "b", "l", "o",
      "s", ".", "c", "o", "m", "/", "p", "a", "b", "s", "_", "p", "r", "o",
      "f", "_", "c", "i", "r", "c", "l", "e", "@", "7", "5", "0", ".", "p",
      "n", "g">>

LINKEDIN_URL ==
    <<"h", "t", "t", "p", "s", ":", "/", "/", "w", "w", "w", ".", "l", "i", "n",
      "k", "e", "d", "i", "n", ".", "c", "o", "m", "/", "i", "n", "/", "p",
      "a", "b", "l", "o", "-", "v", "i", "z", "c", "a", "i", "n", "o", "-",
      "c", "a", "b", "a", "l", "l", "e", "r", "o", "s", "/">>

\* a destructuring default: it applies to an undefined property only
Default(v, d) == IF v = Undefined THEN d ELSE v

\* the options of getNavCoverHTML
Options(currentPage, parentPage, parentHref, coverImage, coverGradient, pageIcon,
        pageIconImage) ==
    [currentPage |-> currentPage, parentPage |-> parentPage, parentHref |-> parentHref,
     coverImage |-> coverImage, coverGradient |-> coverGradient, pageIcon |-> pageIcon,
     pageIconImage |-> pageIconImage]

\* the page icon element getNavCoverHTML builds from its options
PageIconElement(options) ==
    LET pageIcon == Default(options.pageIcon, <<"i", "m", "a", "g", "e">>)
        pageIconImage == Default(options.pageIconImage, PROFILE_IMAGE)
    IN  IF pageIcon = <<"i", "m", "a", "g", "e">>
        THEN <<"<", "d", "i", "v", " ", "c", "l", "a", "s", "s", "=", "\"", "p",
               "a", "g", "e", "-", "i", "c", "o", "n", "\"", ">", "<",
               "i", "m", "g", " ", "s", "r", "c", "=", "\"">> \o ToStr(pageIconImage)
             \o <<"\"", " ", "a", "l", "t", "=", "\"", "\"", ">", "<", "/", "d",
                  "i", "v", ">">>
        ELSE IF pageIcon = <<"n", "o", "n", "e">> THEN <<>>
        ELSE IF Truthy(pageIcon)
        THEN <<"<", "d", "i", "v", " ", "c", "l", "a", "s", "s", "=", "\"", "p",
               "a", "g", "e", "-", "i", "c", "o", "n", "\"", ">">> \o pageIcon \o <<"<", "/", "d", "i", "v",
                                                          ">">>
        ELSE <<>>

\* the returned template holds middleBreadcrumb, currentPage and
\* coverElement; it does not hold the page icon element
getNavCoverHTML(options) ==
    LET currentPage == Default(options.currentPage, <<"P", "a", "g", "e">>)
        parentPage == Default(options.parentPage, Null)
        parentHref == Default(options.parentHref, Null)
        coverImage == Default(options.coverImage, DEFAULT_COVER)
        coverGradient == Default(options.coverGradient, Null)
        middleBreadcrumb ==
            IF Truthy(parentPage) /\ Truthy(parentHref)
            THEN <<"\n", " ", " ", " ", " ", " ", " ", " ", " ", " ", " ",
                          " ", " ", "<", "s", "p", "a",
                          "n", " ", "c", "l", "a", "s",
                          "s", "=", "\"", "d", "i", "v",
                          "i", "d", "e", "r", "\"", ">",
                          "/", "<", "/", "s", "p", "a",
                          "n", ">", "\n", " ", " ", " ",
                          " ", " ", " ", " ", " ", " ",
                          " ", " ", " ", "<", "d", "i",
                          "v", " ", "c", "l", "a", "s",
                          "s", "=", "\"", "c", "r", "u",
                          "m", "b", "\"", " ", "o", "n",
                          "c", "l", "i", "c", "k", "=",
                          "\"", "w", "i", "n", "d", "o",
                          "w", ".", "l", "o", "c", "a",
                          "t", "i", "o", "n", ".", "h",
                          "r", "e", "f", "=", "'">>
                        \o ToStr(parentHref)
                        \o <<"'", "\"", ">", "\n", " ", " ", " ", " ", " ", " ", " ",
                          " ", " ", " ", " ", " ", " ",
                          " ", " ", " ">>
                        \o ToStr(parentPage)
                        \o <<"\n", " ", " ", " ", " ", " ", " ", " ", " ", " ", " ",
                          " ", " ", "<", "/", "d", "i",
                          "v", ">">>
            ELSE <<>>
        coverElement ==
            IF Truthy(coverGradient)
            THEN <<"<", "d", "i", "v", " ", "c", "l", "a", "s", "s", "=", "\"",
                   "c", "o", "v", "e", "r", "-", "i", "m", "a",
                   "g", "e", "\"", " ", "s", "t", "y", "l", "e",
                   "=", "\"", "b", "a", "c", "k", "g", "r", "o",
                   "u", "n", "d", ":", " ">> \o coverGradient
                 \o <<";", "\"", ">", "<", "/", "d", "i", "v", ">">>
            ELSE <<"<", "i", "m", "g", " ", "s", "r", "c", "=", "\"">> \o ToStr(coverImage) \o <<"\"", " ", "c", "l", "a",
                                                          "s",
                                                          "s",
                                                          "=",
                                                          "\"",
                                                          "c",
                                                          "o",
                                                          "v",
                                                          "e",
                                                          "r",
                                                          "-",
                                                          "i",
                                                          "m",
                                                          "a",
                                                          "g",
                                                          "e",
                                                          "\"",
                                                          " ",
                                                          "a",
                                                          "l",
                                                          "t",
                                                          "=",
                                                          "\"",
                                                          "C",
                                                          "o",
                                                          "v",
                                                          "e",
                                                          "r",
                                                          "\"",
                                                          ">">>
    IN  <<"\n", " ", " ", " ", " ", "<", "!", "-", "-", " ", "N", "A", "V", "C",
          "O", "V", "E", "R", " ", "C", "O", "M", "P", "O", "N", "E", "N",
          "T", " ", "-", "-", ">", "\n", " ", " ", " ", " ", "<", "h", "e",
          "a", "d", "e", "r", ">", "\n", " ", " ", " ", " ", " ", " ", " ",
          " ", "<", "d", "i", "v", " ", "c", "l", "a", "s", "s", "=", "\"",
          "b", "r", "e", "a", "d", "c", "r", "u", "m", "b", "s", "\"", ">",
          "\n", " ", " ", " ", " ", " ", " ", " ", " ", " ", " ", " ", " ",
          "<", "d", "i", "v", " ", "c", "l", "a", "s", "s", "=", "\"", "c",
          "r", "u", "m", "b", "\"", " ", "o", "n", "c", "l", "i", "c", "k",
          "=", "\"", "w", "i", "n", "d", "o", "w", ".", "l", "o", "c", "a",
          "t", "i", "o", "n", ".", "h", "r", "e", "f", "=", "'">>
        \o BASE_URL
        \o <<"'", "\"", ">", "\n", " ", " ", " ", " ", " ", " ", " ", " ", " ", " ",
          " ", " ", " ", " ", " ", " ", "<", "s", "p", "a", "n", " ", "c",
          "l", "a", "s", "s", "=", "\"", "c", "r", "u", "m", "b", "-", "i",
          "c", "o", "n", "\"", ">", "<", "i", "m", "g", " ", "s", "r", "c",
          "=", "\"">>
        \o PROFILE_IMAGE
        \o <<"\"", " ", "a", "l", "t", "=", "\"", "P", "a", "b", "l", "o", "\"", ">",
          "<", "/", "s", "p", "a", "n", ">", " ", "P", "a", "b", "l", "o",
          " ", "V", "i", "z", "c", "a", "i", "n", "o", "\n", " ", " ", " ",
          " ", " ", " ", " ", " ", " ", " ", " ", " ", "<", "/", "d", "i",
          "v", ">", "\n", " ", " ", " ", " ", " ", " ", " ", " ", " ", " ",
          " ", " ">>
        \o middleBreadcrumb
        \o <<"\n", " ", " ", " ", " ", " ", " ", " ", " ", " ", " ", " ", " ", "<",
          "s", "p", "a", "n", " ", "c", "l", "a", "s", "s", "=", "\"", "d",
          "i", "v", "i", "d", "e", "r", "\"", ">", "/", "<", "/", "s", "p",
          "a", "n", ">", "\n", " ", " ", " ", " ", " ", " ", " ", " ", " ",
          " ", " ", " ", "<", "d", "i", "v", " ", "c", "l", "a", "s", "s",
          "=", "\"", "c", "r", "u", "m", "b", "\"", " ", "s", "t", "y",
          "l", "e", "=", "\"", "c", "u", "r", "s", "o", "r", ":", " ", "d",
          "e", "f", "a", "u", "l", "t", ";", "\"", ">", "\n", " ", " ",
          " ", " ", " ", " ", " ", " ", " ", " ", " ", " ", " ", " ", " ",
          " ">>
        \o ToStr(currentPage)
        \o <<"\n", " ", " ", " ", " ", " ", " ", " ", " ", " ", " ", " ", " ", "<",
          "/", "d", "i", "v", ">", "\n", " ", " ", " ", " ", " ", " ", " ",
          " ", "<", "/", "d", "i", "v", ">", "\n", " ", " ", " ", " ", " ",
          " ", " ", " ", "<", "d", "i", "v", " ", "c", "l", "a", "s", "s",
          "=", "\"", "h", "e", "a", "d", "e", "r", "-", "c", "o", "n", "t",
          "r", "o", "l", "s", "\"", ">", "\n", " ", " ", " ", " ", " ",
          " ", " ", " ", " ", " ", " ", " ", "<", "!", "-", "-", " ", "T",
          "h", "e", "m", "e", " ", "T", "o", "g", "g", "l", "e", " ", "-",
          "-", ">", "\n", " ", " ", " ", " ", " ", " ", " ", " ", " ", " ",
          " ", " ", "<", "d", "i", "v", " ", "c", "l", "a", "s", "s", "=",
          "\"", "h", "e", "a", "d", "e", "r", "-", "b", "t", "n", "\"",
          " ", "o", "n", "c", "l", "i", "c", "k", "=", "\"", "t", "o", "g",
          "g", "l", "e", "T", "h", "e", "m", "e", "(", ")", "\"", " ", "t",
          "i", "t", "l", "e", "=", "\"", "T", "o", "g", "g", "l", "e", " ",
          "D", "a", "r", "k", " ", "M", "o", "d", "e", "\"", ">", "\n",
          " ", " ", " ", " ", " ", " ", " ", " ", " ", " ", " ", " ", " ",
          " ", " ", " ", "<", "s", "p", "a", "n", " ", "i", "d", "=", "\"",
          "t", "h", "e", "m", "e", "-", "i", "c", "o", "n", "\"", ">",
          "U+201A", "U+00F2", "U+00C4", "U+00D4", "U+220F", "U+00E8", "<",
          "/", "s", "p", "a", "n", ">", "\n", " ", " ", " ", " ", " ", " ",
          " ", " ", " ", " ", " ", " ", "<", "/", "d", "i", "v", ">", "\n",
          " ", " ", " ", " ", " ", " ", " ", " ", " ", " ", " ", " ", "\n",
          " ", " ", " ", " ", " ", " ", " ", " ", " ", " ", " ", " ", "<",
          "!", "-", "-", " ", "O", "v", "e", "r", "f", "l", "o", "w", " ",
          "M", "e", "n", "u", " ", "T", "r", "i", "g", "g", "e", "r", " ",
          "-", "-", ">", "\n", " ", " ", " ", " ", " ", " ", " ", " ", " ",
          " ", " ", " ", "<", "d", "i", "v", " ", "c", "l", "a", "s", "s",
          "=", "\"", "h", "e", "a", "d", "e", "r", "-", "b", "t", "n",
          "\"", " ", "o", "n", "c", "l", "i", "c", "k", "=", "\"", "t",
          "o", "g", "g", "l", "e", "O", "v", "e", "r", "f", "l", "o", "w",
          "(", "e", "v", "e", "n", "t", ")", "\"", " ", "t", "i", "t", "l",
          "e", "=", "\"", "M", "o", "r", "e", " ", "o", "p", "t", "i", "o",
          "n", "s", "\"", ">", "U+201A", "U+00E3", "U+00D8", "<", "/", "d",
          "i", "v", ">", "\n", "\n", " ", " ", " ", " ", " ", " ", " ",
          " ", " ", " ", " ", " ", "<", "!", "-", "-", " ", "D", "R", "O",
          "P", " ", "D", "O", "W", "N", " ", "M", "E", "N", "U", " ", "-",
          "-", ">", "\n", " ", " ", " ", " ", " ", " ", " ", " ", " ", " ",
          " ", " ", "<", "d", "i", "v", " ", "i", "d", "=", "\"", "o", "v",
          "e", "r", "f", "l", "o", "w", "-", "m", "e", "n", "u", "\"", " ",
          "c", "l", "a", "s", "s", "=", "\"", "o", "v", "e", "r", "f", "l",
          "o", "w", "-", "m", "e", "n", "u", "\"", ">", "\n", " ", " ",
          " ", " ", " ", " ", " ", " ", " ", " ", " ", " ", " ", " ", " ",
          " ", "<", "d", "i", "v", " ", "c", "l", "a", "s", "s", "=", "\"",
          "m", "e", "n", "u", "-", "s", "e", "c", "t", "i", "o", "n", "-",
          "t", "i", "t", "l", "e", "\"", ">", "C", "o", "n", "t", "a", "c",
          "t", "<", "/", "d", "i", "v", ">", "\n", " ", " ", " ", " ", " ",
          " ", " ", " ", " ", " ", " ", " ", " ", " ", " ", " ", "<", "a",
          " ", "h", "r", "e", "f", "=", "\"", "m", "a", "i", "l", "t", "o",
          ":", "h", "e", "y", "t", "h", "a", "t", "s", "p", "a", "b", "l",
          "o", "@", "g", "m", "a", "i", "l", ".", "c", "o", "m", "\"", " ",
          "c", "l", "a", "s", "s", "=", "\"", "m", "e", "n", "u", "-", "i",
          "t", "e", "m", "\"", ">", "\n", " ", " ", " ", " ", " ", " ",
          " ", " ", " ", " ", " ", " ", " ", " ", " ", " ", " ", " ", " ",
          " ", "<", "s", "p", "a", "n", " ", "c", "l", "a", "s", "s", "=",
          "\"", "m", "e", "n", "u", "-", "i", "c", "o", "n", "\"", ">",
          "U+201A", "U+00FA", "U+00E2", "U+00D4", "U+220F", "U+00E8", "<",
          "/", "s", "p", "a", "n", ">", "\n", " ", " ", " ", " ", " ", " ",
          " ", " ", " ", " ", " ", " ", " ", " ", " ", " ", " ", " ", " ",
          " ", "<", "s", "p", "a", "n", " ", "c", "l", "a", "s", "s", "=",
          "\"", "m", "e", "n", "u", "-", "l", "a", "b", "e", "l", "\"",
          ">", "h", "e", "y", "t", "h", "a", "t", "s", "p", "a", "b", "l",
          "o", "@", "g", "m", "a", "i", "l", ".", "c", "o", "m", "<", "/",
          "s", "p", "a", "n", ">", "\n", " ", " ", " ", " ", " ", " ", " ",
          " ", " ", " ", " ", " ", " ", " ", " ", " ", "<", "/", "a", ">",
          "\n", " ", " ", " ", " ", " ", " ", " ", " ", " ", " ", " ", " ",
          " ", " ", " ", " ", "\n", " ", " ", " ", " ", " ", " ", " ", " ",
          " ", " ", " ", " ", " ", " ", " ", " ", "<", "d", "i", "v", " ",
          "s", "t", "y", "l", "e", "=", "\"", "h", "e", "i", "g", "h", "t",
          ":", " ", "1", "p", "x", ";", " ", "b", "a", "c", "k", "g", "r",
          "o", "u", "n", "d", ":", " ", "v", "a", "r", "(", "-", "-", "b",
          "o", "r", "d", "e", "r", "-", "c", "o", "l", "o", "r", ")", ";",
          " ", "m", "a", "r", "g", "i", "n", ":", " ", "4", "p", "x", " ",
          "0", ";", "\"", ">", "<", "/", "d", "i", "v", ">", "\n", " ",
          " ", " ", " ", " ", " ", " ", " ", " ", " ", " ", " ", " ", " ",
          " ", " ", "\n", " ", " ", " ", " ", " ", " ", " ", " ", " ", " ",
          " ", " ", " ", " ", " ", " ", "<", "d", "i", "v", " ", "c", "l",
          "a", "s", "s", "=", "\"", "m", "e", "n", "u", "-", "s", "e", "c",
          "t", "i", "o", "n", "-", "t", "i", "t", "l", "e", "\"", ">", "S",
          "o", "c", "i", "a", "l", "s", "<", "/", "d", "i", "v", ">", "\n",
          " ", " ", " ", " ", " ", " ", " ", " ", " ", " ", " ", " ", " ",
          " ", " ", " ", "<", "a", " ", "h", "r", "e", "f", "=", "\"">>
        \o LINKEDIN_URL
        \o <<"\"", " ", "t", "a", "r", "g", "e", "t", "=", "\"", "_", "b", "l", "a",
          "n", "k", "\"", " ", "c", "l", "a", "s", "s", "=", "\"", "m",
          "e", "n", "u", "-", "i", "t", "e", "m", "\"", ">", "\n", " ",
          " ", " ", " ", " ", " ", " ", " ", " ", " ", " ", " ", " ", " ",
          " ", " ", " ", " ", " ", " ", "<", "s", "p", "a", "n", " ", "c",
          "l", "a", "s", "s", "=", "\"", "m", "e", "n", "u", "-", "i", "c",
          "o", "n", "\"", ">", "U+F8FF", "U+00FC", "U+00EE", "U+00F3", "<",
          "/", "s", "p", "a", "n", ">", "\n", " ", " ", " ", " ", " ", " ",
          " ", " ", " ", " ", " ", " ", " ", " ", " ", " ", " ", " ", " ",
          " ", "<", "s", "p", "a", "n", " ", "c", "l", "a", "s", "s", "=",
          "\"", "m", "e", "n", "u", "-", "l", "a", "b", "e", "l", "\"",
          ">", "L", "i", "n", "k", "e", "d", "I", "n", "<", "/", "s", "p",
          "a", "n", ">", "\n", " ", " ", " ", " ", " ", " ", " ", " ", " ",
          " ", " ", " ", " ", " ", " ", " ", "<", "/", "a", ">", "\n", " ",
          " ", " ", " ", " ", " ", " ", " ", " ", " ", " ", " ", "<", "/",
          "d", "i", "v", ">", "\n", " ", " ", " ", " ", " ", " ", " ", " ",
          "<", "/", "d", "i", "v", ">", "\n", " ", " ", " ", " ", "<", "/",
          "h", "e", "a", "d", "e", "r", ">", "\n", "\n", " ", " ", " ", " ">>
        \o coverElement
        \o <<"\n", " ", " ", " ", " ", "<", "!", "-", "-", " ", "E", "N", "D", " ",
          "N", "A", "V", "C", "O", "V", "E", "R", " ", "C", "O", "M", "P",
          "O", "N", "E", "N", "T", " ", "-", "-", ">">>

\* the static text of the NavCover script is left out; its functions are
\* handlers of the page
getNavCoverScript == <<>>

(***************************************************************************)
(* generatePage (page-generator.js).                                       *)
(***************************************************************************)
\* config.icon and config.cover: absent, or an object
NoIcon == [defined |-> FALSE, type |-> Undefined, emoji |-> Undefined, src |-> Undefined]
Icon(type, emoji, src) == [defined |-> TRUE, type |-> type, emoji |-> emoji, src |-> src]
NoCover == [defined |-> FALSE, gradient |-> Undefined, src |-> Undefined]
Cover(gradient, src) == [defined |-> TRUE, gradient |-> gradient, src |-> src]

EmptyConfig ==
    [slug |-> Undefined, title |-> Undefined, description |-> Undefined,
     breadcrumb |-> Undefined, parentPage |-> Undefined, parentHref |-> Undefined,
     ogImage |-> Undefined, backLink |-> Undefined, toc |-> Undefined,
     cover |-> NoCover, icon |-> NoIcon, blocks |-> NoItems]

\* the options generatePage hands to getNavCoverHTML
NavCoverOptions(config) ==
    LET coverGradient ==
            IF config.cover.defined /\ Truthy(config.cover.gradient)
            THEN config.cover.gradient ELSE Null
        coverImage ==
            IF config.cover.defined /\ ~Truthy(config.cover.gradient)
               /\ Truthy(config.cover.src)
            THEN config.cover.src ELSE DEFAULT_COVER
        pageIcon ==
            IF ~config.icon.defined THEN <<"i", "m", "a", "g", "e">>
            ELSE IF config.icon.type = <<"n", "o", "n", "e">> THEN Null
            ELSE IF Truthy(config.icon.emoji) THEN config.icon.emoji
            ELSE <<"i", "m", "a", "g", "e">>
        pageIconImage ==
            IF config.icon.defined /\ config.icon.type # <<"n", "o", "n", "e">>
               /\ ~Truthy(config.icon.emoji)
               /\ config.icon.type = <<"i", "m", "a", "g", "e">> /\ Truthy(config.icon.src)
            THEN config.icon.src ELSE Null
    IN  Options(OrElse(config.breadcrumb, config.title),
                OrElse(config.parentPage, Null), OrElse(config.parentHref, Null),
                coverImage, coverGradient, pageIcon, pageIconImage)

\* the page icon of the content area
IconHtml(config) ==
    IF config.icon.defined /\ config.icon.type # <<"n", "o", "n", "e">> /\ Truthy(config.icon.emoji)
    THEN <<"<", "d", "i", "v", " ", "c", "l", "a", "s", "s", "=", "\"", "p", "a",
           "g", "e", "-", "i", "c", "o", "n", "\"", ">">> \o config.icon.emoji \o <<"<", "/", "d", "i",
                                                               "v",
                                                               ">">>
    ELSE <<>>

TocScript(config) ==
    IF Truthy(config.toc)
    THEN <<"\n", " ", " ", " ", " ", " ", " ", " ", " ", "/", "/", " ",
                     "G", "e", "n", "e", "r", "a", "t", "e",
                     " ", "T", "O", "C", "\n", " ", " ", " ",
                     " ", " ", " ", " ", " ", "d", "o", "c",
                     "u", "m", "e", "n", "t", ".", "a", "d",
                     "d", "E", "v", "e", "n", "t", "L", "i",
                     "s", "t", "e", "n", "e", "r", "(", "'",
                     "D", "O", "M", "C", "o", "n", "t", "e",
                     "n", "t", "L", "o", "a", "d", "e", "d",
                     "'", ",", " ", "(", ")", " ", "=", ">",
                     " ", "{", "\n", " ", " ", " ", " ", " ",
                     " ", " ", " ", " ", " ", " ", " ", "c",
                     "o", "n", "s", "t", " ", "h", "e", "a",
                     "d", "i", "n", "g", "s", " ", "=", " ",
                     "d", "o", "c", "u", "m", "e", "n", "t",
                     ".", "q", "u", "e", "r", "y", "S", "e",
                     "l", "e", "c", "t", "o", "r", "A", "l",
                     "l", "(", "'", "h", "2", "'", ")", ";",
                     "\n", " ", " ", " ", " ", " ", " ", " ",
                     " ", " ", " ", " ", " ", "c", "o", "n",
                     "s", "t", " ", "t", "o", "c", "L", "i",
                     "n", "k", "s", " ", "=", " ", "d", "o",
                     "c", "u", "m", "e", "n", "t", ".", "g",
                     "e", "t", "E", "l", "e", "m", "e", "n",
                     "t", "B", "y", "I", "d", "(", "'", "t",
                     "o", "c", "-", "l", "i", "n", "k", "s",
                     "'", ")", ";", "\n", " ", " ", " ", " ",
                     " ", " ", " ", " ", " ", " ", " ", " ",
                     "i", "f", " ", "(", "t", "o", "c", "L",
                     "i", "n", "k", "s", " ", "&", "&", " ",
                     "h", "e", "a", "d", "i", "n", "g", "s",
                     ".", "l", "e", "n", "g", "t", "h", ")",
                     " ", "{", "\n", " ", " ", " ", " ", " ",
                     " ", " ", " ", " ", " ", " ", " ", " ",
                     " ", " ", " ", "h", "e", "a", "d", "i",
                     "n", "g", "s", ".", "f", "o", "r", "E",
                     "a", "c", "h", "(", "(", "h", ",", " ",
                     "i", ")", " ", "=", ">", " ", "{", "\n",
                     " ", " ", " ", " ", " ", " ", " ", " ",
                     " ", " ", " ", " ", " ", " ", " ", " ",
                     " ", " ", " ", " ", "c", "o", "n", "s",
                     "t", " ", "i", "d", " ", "=", " ", "'",
                     "s", "e", "c", "t", "i", "o", "n", "-",
                     "'", " ", "+", " ", "i", ";", "\n", " ",
                     " ", " ", " ", " ", " ", " ", " ", " ",
                     " ", " ", " ", " ", " ", " ", " ", " ",
                     " ", " ", " ", "h", ".", "i", "d", " ",
                     "=", " ", "i", "d", ";", "\n", " ", " ",
                     " ", " ", " ", " ", " ", " ", " ", " ",
                     " ", " ", " ", " ", " ", " ", " ", " ",
                     " ", " ", "t", "o", "c", "L", "i", "n",
                     "k", "s", ".", "i", "n", "n", "e", "r",
                     "H", "T", "M", "L", " ", "+", "=", " ",
                     "'", "<", "a", " ", "h", "r", "e", "f",
                     "=", "\"", "#", "'", " ", "+", " ", "i",
                     "d", " ", "+", " ", "'", "\"", ">", "'",
                     " ", "+", " ", "h", ".", "t", "e", "x",
                     "t", "C", "o", "n", "t", "e", "n", "t",
                     " ", "+", " ", "'", "<", "/", "a", ">",
                     "'", ";", "\n", " ", " ", " ", " ", " ",
                     " ", " ", " ", " ", " ", " ", " ", " ",
                     " ", " ", " ", "}", ")", ";", "\n", " ",
                     " ", " ", " ", " ", " ", " ", " ", " ",
                     " ", " ", " ", "}", "\n", " ", " ", " ",
                     " ", " ", " ", " ", " ", "}", ")", ";">>
    ELSE <<>>

\* the document; the static text inside its style element is left out
generatePage(config) ==
    IF ~config.blocks.defined THEN Thrown
    ELSE LET blocks == MapRenderBlock(config.blocks.list, <<"\n", "\n">>)
             navCoverHtml == getNavCoverHTML(NavCoverOptions(config))
             iconHtml == IconHtml(config)
             tocScript == TocScript(config)
         IN  IF blocks.kind = "throw" THEN Thrown
             ELSE Returned(
            <<"<", "!", "D", "O", "C", "T", "Y", "P", "E", " ", "h", "t", "m", "l",
              ">", "\n", "<", "h", "t", "m", "l", " ", "l", "a", "n",
              "g", "=", "\"", "e", "n", "\"", ">", "\n", "<", "h", "e",
              "a", "d", ">", "\n", " ", " ", " ", " ", "<", "m", "e",
              "t", "a", " ", "c", "h", "a", "r", "s", "e", "t", "=",
              "\"", "U", "T", "F", "-", "8", "\"", ">", "\n", " ", " ",
              " ", " ", "<", "m", "e", "t", "a", " ", "n", "a", "m",
              "e", "=", "\"", "v", "i", "e", "w", "p", "o", "r", "t",
              "\"", " ", "c", "o", "n", "t", "e", "n", "t", "=", "\"",
              "w", "i", "d", "t", "h", "=", "d", "e", "v", "i", "c",
              "e", "-", "w", "i", "d", "t", "h", ",", " ", "i", "n",
              "i", "t", "i", "a", "l", "-", "s", "c", "a", "l", "e",
              "=", "1", ".", "0", "\"", ">", "\n", " ", " ", " ", " ",
              "<", "t", "i", "t", "l", "e", ">">>
            \o ToStr(config.title)
            \o <<" ", "-", " ", "P", "a", "b", "l", "o", " ", "V", "i", "z", "c", "a",
              "i", "n", "o", "<", "/", "t", "i", "t", "l", "e", ">",
              "\n", " ", " ", " ", " ", "\n", " ", " ", " ", " ", "<",
              "!", "-", "-", " ", "S", "E", "O", " ", "-", "-", ">",
              "\n", " ", " ", " ", " ", "<", "m", "e", "t", "a", " ",
              "n", "a", "m", "e", "=", "\"", "d", "e", "s", "c", "r",
              "i", "p", "t", "i", "o", "n", "\"", " ", "c", "o", "n",
              "t", "e", "n", "t", "=", "\"">>
            \o OrElse(config.description, <<>>)
            \o <<"\"", ">", "\n", " ", " ", " ", " ", "<", "m", "e", "t", "a", " ",
              "n", "a", "m", "e", "=", "\"", "a", "u", "t", "h", "o",
              "r", "\"", " ", "c", "o", "n", "t", "e", "n", "t", "=",
              "\"", "P", "a", "b", "l", "o", " ", "F", ".", " ", "V",
              "i", "z", "c", "a", "i", "n", "o", "\"", ">", "\n", " ",
              " ", " ", " ", "<", "l", "i", "n", "k", " ", "r", "e",
              "l", "=", "\"", "c", "a", "n", "o", "n", "i", "c", "a",
              "l", "\"", " ", "h", "r", "e", "f", "=", "\"">>
            \o BASE_URL
            \o <<"/">>
            \o ToStr(config.slug)
            \o <<".", "h", "t", "m", "l", "\"", ">", "\n", " ", " ", " ", " ", "\n",
              " ", " ", " ", " ", "<", "!", "-", "-", " ", "O", "p",
              "e", "n", " ", "G", "r", "a", "p", "h", " ", "-", "-",
              ">", "\n", " ", " ", " ", " ", "<", "m", "e", "t", "a",
              " ", "p", "r", "o", "p", "e", "r", "t", "y", "=", "\"",
              "o", "g", ":", "t", "i", "t", "l", "e", "\"", " ", "c",
              "o", "n", "t", "e", "n", "t", "=", "\"">>
            \o ToStr(config.title)
            \o <<"\"", ">", "\n", " ", " ", " ", " ", "<", "m", "e", "t", "a", " ",
              "p", "r", "o", "p", "e", "r", "t", "y", "=", "\"", "o",
              "g", ":", "d", "e", "s", "c", "r", "i", "p", "t", "i",
              "o", "n", "\"", " ", "c", "o", "n", "t", "e", "n", "t",
              "=", "\"">>
            \o OrElse(config.description, <<>>)
            \o <<"\"", ">", "\n", " ", " ", " ", " ", "<", "m", "e", "t", "a", " ",
              "p", "r", "o", "p", "e", "r", "t", "y", "=", "\"", "o",
              "g", ":", "i", "m", "a", "g", "e", "\"", " ", "c", "o",
              "n", "t", "e", "n", "t", "=", "\"">>
            \o OrElse(config.ogImage, BASE_URL \o <<"/", "l", "i", "-", "p", "v", "2", "-", "s", "m", "a", "l", "l", ".", "p", "n",
  "g">>)
            \o <<"\"", ">", "\n", " ", " ", " ", " ", "<", "m", "e", "t", "a", " ",
              "p", "r", "o", "p", "e", "r", "t", "y", "=", "\"", "o",
              "g", ":", "u", "r", "l", "\"", " ", "c", "o", "n", "t",
              "e", "n", "t", "=", "\"">>
            \o BASE_URL
            \o <<"/">>
            \o ToStr(config.slug)
            \o <<".", "h", "t", "m", "l", "\"", ">", "\n", " ", " ", " ", " ", "<",
              "m", "e", "t", "a", " ", "p", "r", "o", "p", "e", "r",
              "t", "y", "=", "\"", "o", "g", ":", "t", "y", "p", "e",
              "\"", " ", "c", "o", "n", "t", "e", "n", "t", "=", "\"",
              "w", "e", "b", "s", "i", "t", "e", "\"", ">", "\n", " ",
              " ", " ", " ", "\n", " ", " ", " ", " ", "<", "!", "-",
              "-", " ", "T", "w", "i", "t", "t", "e", "r", " ", "-",
              "-", ">", "\n", " ", " ", " ", " ", "<", "m", "e", "t",
              "a", " ", "n", "a", "m", "e", "=", "\"", "t", "w", "i",
              "t", "t", "e", "r", ":", "c", "a", "r", "d", "\"", " ",
              "c", "o", "n", "t", "e", "n", "t", "=", "\"", "s", "u",
              "m", "m", "a", "r", "y", "_", "l", "a", "r", "g", "e",
              "_", "i", "m", "a", "g", "e", "\"", ">", "\n", " ", " ",
              " ", " ", "<", "m", "e", "t", "a", " ", "n", "a", "m",
              "e", "=", "\"", "t", "w", "i", "t", "t", "e", "r", ":",
              "t", "i", "t", "l", "e", "\"", " ", "c", "o", "n", "t",
              "e", "n", "t", "=", "\"">>
            \o ToStr(config.title)
            \o <<"\"", ">", "\n", " ", " ", " ", " ", "<", "m", "e", "t", "a", " ",
              "n", "a", "m", "e", "=", "\"", "t", "w", "i", "t", "t",
              "e", "r", ":", "d", "e", "s", "c", "r", "i", "p", "t",
              "i", "o", "n", "\"", " ", "c", "o", "n", "t", "e", "n",
              "t", "=", "\"">>
            \o OrElse(config.description, <<>>)
            \o <<"\"", ">", "\n", " ", " ", " ", " ", "\n", " ", " ", " ", " ", "<",
              "s", "t", "y", "l", "e", ">", "\n", " ", " ", " ", " ",
              "<", "/", "s", "t", "y", "l", "e", ">", "\n", "<", "/",
              "h", "e", "a", "d", ">", "\n", "<", "b", "o", "d", "y",
              " ", "c", "l", "a", "s", "s", "=", "\"", "d", "a", "r",
              "k", "-", "m", "o", "d", "e", "\"", ">", "\n", " ", " ",
              " ", " ">>
            \o navCoverHtml
            \o <<"\n", " ", " ", " ", " ", "\n", " ", " ", " ", " ", "<", "m", "a",
              "i", "n", " ", "c", "l", "a", "s", "s", "=", "\"", "m",
              "a", "i", "n", "-", "c", "o", "n", "t", "a", "i", "n",
              "e", "r">>
            \o (IF ~Truthy(iconHtml) THEN <<" ", "n", "o", "-", "i", "c", "o", "n">> ELSE <<>>)
            \o <<"\"", ">", "\n", " ", " ", " ", " ", " ", " ", " ", " ">>
            \o iconHtml
            \o <<"\n", " ", " ", " ", " ", " ", " ", " ", " ", "\n">>
            \o blocks.val
            \o <<"\n", "\n", " ", " ", " ", " ", " ", " ", " ", " ">>
            \o (IF config.backLink # JsFalse
            THEN <<"<", "a", " ", "h", "r", "e", "f", "=", "\"">> \o BASE_URL
                 \o <<"\"", " ", "c", "l", "a", "s", "s", "=", "\"", "b", "a", "c",
                      "k", "-", "l", "i", "n", "k", "\"", ">",
                      "U+201A", "U+00DC", "U+00EA", " ", "B",
                      "a", "c", "k", " ", "t", "o", " ", "P",
                      "o", "r", "t", "f", "o", "l", "i", "o",
                      "<", "/", "a", ">">>
            ELSE <<>>)
            \o <<"\n", " ", " ", " ", " ", "<", "/", "m", "a", "i", "n", ">", "\n",
              " ", " ", " ", " ", "\n", " ", " ", " ", " ", "<", "s",
              "c", "r", "i", "p", "t", ">", "\n", " ", " ", " ", " ",
              " ", " ", " ", " ">>
            \o getNavCoverScript
            \o <<"\n", " ", " ", " ", " ", " ", " ", " ", " ">>
            \o tocScript
            \o <<"\n", " ", " ", " ", " ", "<", "/", "s", "c", "r", "i", "p", "t",
              ">", "\n", "<", "/", "b", "o", "d", "y", ">", "\n", "<",
              "/", "h", "t", "m", "l", ">">>)

(***************************************************************************)
(* The page in the browser: the elements the TOC script reads and writes.  *)
(***************************************************************************)
\* the indices of s where one of the literals stands, in increasing order
RECURSIVE Ascending(_)
Ascending(S) ==
    IF S = {} THEN <<>>
    ELSE LET least == CHOOSE p \in S : \A q \in S : p <= q
         IN  <<least>> \o Ascending(S \ {least})

\* the least index >= i of s where the literal stands, 0 when there is none
NextIndex(s, i, lit) ==
    LET at == {p \in i..(Len(s) + 1) : StartsAt(s, p, lit)}
    IN  IF at = {} THEN 0 ELSE CHOOSE p \in at : \A q \in at : p <= q

\* the text of markup with its tags left out
RECURSIVE StripTags(_)
StripTags(s) ==
    LET open == NextIndex(s, 1, <<"<">>)
        close == IF open = 0 THEN 0 ELSE NextIndex(s, open, <<">">>)
    IN  IF close = 0 THEN s
        ELSE SubSeq(s, 1, open - 1) \o StripTags(SubSeq(s, close + 1, Len(s)))

\* document.querySelectorAll('h2'): the h2 elements in document order
QueryH2(doc) ==
    LET starts == Ascending({p \in 1..Len(doc) :
                      StartsAt(doc, p, <<"<", "h", "2", ">">>) \/ StartsAt(doc, p, <<"<", "h",
                                                                       "2",
                                                                       " ">>)})
    IN  [k \in 1..Len(starts) |->
            LET from == NextIndex(doc, starts[k], <<">">>) + 1
                to == NextIndex(doc, from, <<"<", "/", "h", "2", ">">>)
            IN  [id |-> <<>>, textContent |-> StripTags(SubSeq(doc, from, to - 1))]]

\* the page after parsing: its h2 elements and the element with the id
\* toc-links
ParseDocument(doc) ==
    [h2 |-> QueryH2(doc),
     tocLinks |-> [present |-> NextIndex(doc, 1, <<"i", "d", "=", "\"", "t", "o",
                                                   "c",
                                                   "-",
                                                   "l",
                                                   "i",
                                                   "n",
                                                   "k",
                                                   "s",
                                                   "\"">>) # 0,
                   innerHTML |-> <<>>]]

NoDocument == [h2 |-> <<>>, tocLinks |-> [present |-> FALSE, innerHTML |-> <<>>]]

\* String(n) for a natural number
RECURSIVE Decimal(_)
Decimal(n) ==
    LET digit == <<"0", "1", "2", "3", "4", "5", "6", "7", "8", "9">>[(n % 10) + 1]
    IN  IF n < 10 THEN <<digit>> ELSE Decimal(n \div 10) \o <<digit>>

\* 'section-' + i
SectionId(i) == <<"s", "e", "c", "t", "i", "o", "n", "-">> \o Decimal(i)

\* mutant: the headings are numbered from one
RunTocScript_OneBased(d) ==
    IF d.tocLinks.present /\ Len(d.h2) # 0
    THEN [h2 |-> [k \in 1..Len(d.h2) |-> [d.h2[k] EXCEPT !.id = SectionId(k)]],
          tocLinks |->
              [present |-> TRUE,
               innerHTML |->
                   d.tocLinks.innerHTML
                   \o Join([k \in 1..Len(d.h2) |->
                               <<"<", "a", " ", "h", "r", "e", "f", "=", "\"", "#">> \o SectionId(k) \o <<"\"", ">">>
                               \o d.h2[k].textContent \o <<"<", "/", "a", ">">>], <<>>)]]
    ELSE d

\* the listener the TOC script registers for DOMContentLoaded
RunTocScript(d) ==
    IF d.tocLinks.present /\ Len(d.h2) # 0
    THEN [h2 |-> [k \in 1..Len(d.h2) |-> [d.h2[k] EXCEPT !.id = SectionId(k - 1)]],
          tocLinks |->
              [present |-> TRUE,
               innerHTML |->
                   d.tocLinks.innerHTML
                   \o Join([k \in 1..Len(d.h2) |->
                               <<"<", "a", " ", "h", "r", "e", "f", "=", "\"", "#">> \o SectionId(k - 1) \o <<"\"", ">">>
                               \o d.h2[k].textContent \o <<"<", "/", "a", ">">>], <<>>)]]
    ELSE d

(***************************************************************************)
(* The blog builder (build-posts.js): pages of posts and the blog index.   *)
(* Of each page template the main element is modelled; the head, the       *)
(* NavCover header and the date line, which depends on the time zone of    *)
(* the build machine, are left out.                                        *)
(***************************************************************************)
\* a row of the posts table
Post(slug, title, content) ==
    [slug |-> slug, title |-> title, content |-> content, excerpt |-> Null,
     icon |-> Null, cover_image |-> Null]

\* the template literal generatePostHtml returns, given the value of
\* markdownToHtml(post.content)
PostTemplate(post, renderedContent) ==
        IF renderedContent.kind = "throw" THEN Thrown
        ELSE Returned(
            <<" ", " ", " ", " ", "<", "m", "a", "i", "n", " ", "c", "l", "a", "s",
              "s", "=", "\"", "m", "a", "i", "n", "-", "c", "o", "n",
              "t", "a", "i", "n", "e", "r", "\"", ">", "\n", " ", " ",
              " ", " ", " ", " ", " ", " ", "<", "d", "i", "v", " ",
              "c", "l", "a", "s", "s", "=", "\"", "p", "a", "g", "e",
              "-", "i", "c", "o", "n", "\"", ">">>
            \o OrElse(post.icon, <<"U+1F4DD">>)
            \o <<"<", "/", "d", "i", "v", ">", "\n", " ", " ", " ", " ", " ", " ",
              " ", " ", "<", "h", "1", " ", "c", "l", "a", "s", "s",
              "=", "\"", "p", "a", "g", "e", "-", "t", "i", "t", "l",
              "e", "\"", ">">>
            \o ToStr(post.title)
            \o <<"<", "/", "h", "1", ">", "\n", " ", " ", " ", " ", " ", " ", " ", " ">>
            \o (IF Truthy(post.excerpt)
             THEN <<"<", "p", " ", "c", "l", "a", "s", "s", "=", "\"", "e", "x",
                    "c", "e", "r", "p", "t", "\"", ">">> \o post.excerpt \o <<"<", "/", "p", ">">>
             ELSE <<>>)
            \o <<"\n", " ", " ", " ", " ", " ", " ", " ", " ", "\n", " ", " ", " ",
              " ", " ", " ", " ", " ", "<", "a", "r", "t", "i", "c",
              "l", "e", " ", "c", "l", "a", "s", "s", "=", "\"", "c",
              "o", "n", "t", "e", "n", "t", "\"", ">", "\n">>
            \o renderedContent.val
            \o <<"\n", " ", " ", " ", " ", " ", " ", " ", " ", "<", "/", "a", "r",
              "t", "i", "c", "l", "e", ">", "\n", " ", " ", " ", " ",
              " ", " ", " ", " ", "\n", " ", " ", " ", " ", " ", " ",
              " ", " ", "<", "a", " ", "h", "r", "e", "f", "=", "\"">>
            \o BASE_URL
            \o <<"/", "#", "b", "l", "o", "g", "\"", " ", "c", "l", "a", "s", "s",
              "=", "\"", "b", "a", "c", "k", "-", "l", "i", "n", "k",
              "\"", ">", "U+2190", " ", "B", "a", "c", "k", " ", "t",
              "o", " ", "B", "l", "o", "g", "<", "/", "a", ">", "\n",
              " ", " ", " ", " ", "<", "/", "m", "a", "i", "n", ">">>)

generatePostHtml(post) == PostTemplate(post, markdownToHtml(post.content))

\* one element of posts.map(post => ...)
PostCard(post) ==
    <<"\n", " ", " ", " ", " ", " ", " ", " ", " ", "<", "a", " ", "h", "r", "e",
      "f", "=", "\"", "/", "b", "l", "o", "g", "/">>
    \o ToStr(post.slug)
    \o <<".", "h", "t", "m", "l", "\"", " ", "c", "l", "a", "s", "s", "=", "\"", "p",
      "o", "s", "t", "-", "c", "a", "r", "d", "\"", ">", "\n", " ", " ", " ",
      " ", " ", " ", " ", " ", " ", " ", " ", " ">>
    \o (IF Truthy(post.cover_image)
         THEN <<"<", "i", "m", "g", " ", "s", "r", "c", "=", "\"">> \o post.cover_image \o <<"\"", " ", "a", "l", "t", "=", "\"">>
              \o ToStr(post.title) \o <<"\"", " ", "c", "l", "a", "s", "s", "=", "\"", "p", "o", "s", "t", "-", "c", "o",
  "v", "e", "r", "\"", ">">>
         ELSE <<>>)
    \o <<"\n", " ", " ", " ", " ", " ", " ", " ", " ", " ", " ", " ", " ", "<", "d",
      "i", "v", " ", "c", "l", "a", "s", "s", "=", "\"", "p", "o", "s", "t",
      "-", "i", "n", "f", "o", "\"", ">", "\n", " ", " ", " ", " ", " ", " ",
      " ", " ", " ", " ", " ", " ", " ", " ", " ", " ", "<", "s", "p", "a",
      "n", " ", "c", "l", "a", "s", "s", "=", "\"", "p", "o", "s", "t", "-",
      "i", "c", "o", "n", "\"", ">">>
    \o OrElse(post.icon, <<"U+1F4DD">>)
    \o <<"<", "/", "s", "p", "a", "n", ">", "\n", " ", " ", " ", " ", " ", " ", " ",
      " ", " ", " ", " ", " ", " ", " ", " ", " ", "<", "h", "2", ">">>
    \o ToStr(post.title)
    \o <<"<", "/", "h", "2", ">", "\n", " ", " ", " ", " ", " ", " ", " ", " ", " ",
      " ", " ", " ", " ", " ", " ", " ">>
    \o (IF Truthy(post.excerpt)
         THEN <<"<", "p", " ", "c", "l", "a", "s", "s", "=", "\"", "p", "o", "s",
                "t", "-", "e", "x", "c", "e", "r", "p", "t", "\"", ">">> \o post.excerpt \o <<"<", "/", "p", ">">>
         ELSE <<>>)
    \o <<"\n", " ", " ", " ", " ", " ", " ", " ", " ", " ", " ", " ", " ", "<", "/",
      "d", "i", "v", ">", "\n", " ", " ", " ", " ", " ", " ", " ", " ", "<",
      "/", "a", ">", "\n", " ", " ", " ", " ">>

generateBlogIndex(posts) ==
    LET postCards == Join([k \in 1..Len(posts) |-> PostCard(posts[k])], <<"\n">>)
    IN  Returned(
        <<" ", " ", " ", " ", "<", "m", "a", "i", "n", " ", "c", "l", "a", "s",
          "s", "=", "\"", "m", "a", "i", "n", "-", "c", "o", "n", "t", "a",
          "i", "n", "e", "r", "\"", ">", "\n", " ", " ", " ", " ", " ",
          " ", " ", " ", "<", "d", "i", "v", " ", "c", "l", "a", "s", "s",
          "=", "\"", "p", "a", "g", "e", "-", "i", "c", "o", "n", "\"",
          ">", "U+1F4DD", "<", "/", "d", "i", "v", ">", "\n", " ", " ",
          " ", " ", " ", " ", " ", " ", "<", "h", "1", " ", "c", "l", "a",
          "s", "s", "=", "\"", "p", "a", "g", "e", "-", "t", "i", "t", "l",
          "e", "\"", ">", "B", "l", "o", "g", "<", "/", "h", "1", ">",
          "\n", " ", " ", " ", " ", " ", " ", " ", " ", "\n", " ", " ",
          " ", " ", " ", " ", " ", " ", "<", "d", "i", "v", " ", "c", "l",
          "a", "s", "s", "=", "\"", "p", "o", "s", "t", "s", "-", "g", "r",
          "i", "d", "\"", ">", "\n">>
        \o postCards
        \o <<"\n", " ", " ", " ", " ", " ", " ", " ", " ", "<", "/", "d", "i", "v",
          ">", "\n", " ", " ", " ", " ", " ", " ", " ", " ", "\n", " ",
          " ", " ", " ", " ", " ", " ", " ", "<", "a", " ", "h", "r", "e",
          "f", "=", "\"">>
        \o BASE_URL
        \o <<"\"", " ", "c", "l", "a", "s", "s", "=", "\"", "b", "a", "c", "k", "-",
          "l", "i", "n", "k", "\"", ">", "U+2190", " ", "B", "a", "c", "k",
          " ", "t", "o", " ", "P", "o", "r", "t", "f", "o", "l", "i", "o",
          "<", "/", "a", ">", "\n", " ", " ", " ", " ", "<", "/", "m", "a",
          "i", "n", ">">>)

\* what fetchPosts resolves with: JSON.parse(data) is an array of rows,
\* null, or an object such as the error body of the REST service
Fetched(list) == [kind |-> "array", list |-> list]
FetchedNull == [kind |-> "null", list |-> <<>>]
FetchedObject == [kind |-> "object", list |-> <<>>]
NotFetched == [kind |-> "none", list |-> <<>>]

\* the blog directory: whether it exists, its files by name, and the names
\* written in this run in the order of the writes
NoFiles == [name \in {} |-> <<>>]

\* fs.writeFileSync(path.join(BLOG_DIR, name), html)
WriteFile(dir, name, html) ==
    [dir EXCEPT !.files = [n \in (DOMAIN dir.files) \cup {name} |->
                              IF n = name THEN html ELSE dir.files[n]],
                !.log = Append(dir.log, name)]

\* `${post.slug}.html`
PostFilename(post) == ToStr(post.slug) \o <<".", "h", "t", "m", "l">>

IndexFilename == <<"i", "n", "d", "e", "x", ".", "h", "t", "m", "l">>

\* for (const post of posts) { ... }: the directory after the posts from
\* the k-th on are written, and whether generatePostHtml threw
RECURSIVE WritePosts(_, _, _)

\* one turn of the loop, given html = generatePostHtml(post)
WritePost(dir, list, k, html) ==
    IF html.kind = "throw" THEN [dir |-> dir, threw |-> TRUE]
    ELSE WritePosts(WriteFile(dir, PostFilename(list[k]), html.val), list, k + 1)

WritePosts(dir, list, k) ==
    IF k > Len(list) THEN [dir |-> dir, threw |-> FALSE]
    ELSE WritePost(dir, list, k, generatePostHtml(list[k]))

\* the statements after the loop, which a throw inside the loop skips
WriteIndex(written, list) ==
    IF written.threw THEN [dir |-> written.dir, exit |-> "exit 1"]
    ELSE [dir |-> WriteFile(written.dir, IndexFilename, generateBlogIndex(list).val),
          exit |-> "exit 0"]

\* mutant: the check for no posts is left out
BuildAfterFetch_NoEmptyCheck(dir, fetched) ==
    IF fetched.kind = "null" THEN [dir |-> dir, exit |-> "exit 0"]
    ELSE IF fetched.kind = "object" THEN [dir |-> dir, exit |-> "exit 1"]
    ELSE WriteIndex(WritePosts(dir, fetched.list, 1), fetched.list)

\* build() after await fetchPosts(): the directory and the exit of the
\* process; an object has no length and is not iterable, so for...of throws
BuildAfterFetch(dir, fetched) ==
    IF fetched.kind = "null" \/ (fetched.kind = "array" /\ fetched.list = <<>>)
    THEN [dir |-> dir, exit |-> "exit 0"]
    ELSE IF fetched.kind = "object" THEN [dir |-> dir, exit |-> "exit 1"]
    ELSE WriteIndex(WritePosts(dir, fetched.list, 1), fetched.list)

(***************************************************************************)
(* Input sets.                                                             *)
(***************************************************************************)
\* all strings over the alphabet A of length at most n
StringsUpTo(A, n) == UNION {[1..k -> A] : k \in 0..n}

\* all strings over the alphabet A of length 1 to n
StringsFrom1(A, n) == UNION {[1..k -> A] : k \in 1..n}

InlineAlphabet == {"a", "*", BT, "[", "]", "(", ")", " ", "\n"}

\* text without any character the inline transform looks for
PlainAlphabet == {"a", "b", " "}

\* the round-trip example of the inline transform: **a** *b* `c` [d](e)
InlineExample == <<"*", "*", "a", "*", "*", " ", "*", "b", "*", " ", BT, "c", BT,
                   " ", "[", "d", "]", "(", "e", ")">>

\* a text built around one token: pre, the token of the given kind holding
\* label (and url, for a link), post
NoParts ==
    [kind |-> "none", title |-> <<>>, pre |-> <<>>, label |-> <<>>, url |-> <<>>,
     post |-> <<>>]

TokenKinds == {"bold", "italic", "code", "link"}

TokenParts ==
    {[kind |-> k, title |-> <<>>, pre |-> pre, label |-> l, url |-> u, post |-> post] :
        k \in TokenKinds \ {"link"},
        pre \in StringsUpTo(PlainAlphabet, MaxPlain),
        l \in StringsFrom1(PlainAlphabet, MaxPlain),
        u \in {<<>>},
        post \in StringsUpTo(PlainAlphabet, MaxPlain)}
    \cup
    {[kind |-> "link", title |-> <<>>, pre |-> pre, label |-> l, url |-> u,
      post |-> post] :
        pre \in StringsUpTo(PlainAlphabet, MaxPlain),
        l \in StringsFrom1(PlainAlphabet, MaxPlain),
        u \in StringsFrom1(PlainAlphabet, MaxPlain),
        post \in StringsUpTo(PlainAlphabet, MaxPlain)}

\* the markup of one token
TokenText(p) ==
    CASE p.kind = "bold" -> <<"*", "*">> \o p.label \o <<"*", "*">>
      [] p.kind = "italic" -> <<"*">> \o p.label \o <<"*">>
      [] p.kind = "code" -> <<BT>> \o p.label \o <<BT>>
      [] p.kind = "link" -> <<"[">> \o p.label \o <<"]", "(">> \o p.url \o <<")">>

PartsText(p) == p.pre \o TokenText(p) \o p.post

\* texts whose asterisks are the delimiters of one or two bold tokens on
\* one line: pre **x** mid **y** post, the second token absent when y is <<>>
BoldPairParts ==
    {[kind |-> "boldpair", pre |-> pre, x |-> x, mid |-> mid, y |-> y, post |-> post] :
        pre \in {<<>>, <<"a">>},
        x \in StringsFrom1(PlainAlphabet, MaxPlain),
        mid \in StringsUpTo(PlainAlphabet, MaxPlain),
        y \in StringsUpTo(PlainAlphabet, MaxPlain),
        post \in {<<>>, <<"b">>}}

BoldPairText(p) ==
    p.pre \o <<"*", "*">> \o p.x \o <<"*", "*">> \o p.mid
        \o (IF p.y = <<>> THEN <<>> ELSE <<"*", "*">> \o p.y \o <<"*", "*">>) \o p.post

\* blocks handed to renderBlock
S_red == <<"r", "e", "d">>
S_x == <<"x">>
S_y == <<"Y">>
S_z == <<"z">>
S_boldb == <<"*", "*", "b", "*", "*">>

CoverBlocks ==
    {[EmptyBlock EXCEPT !.type = TypeName.cover, !.gradient = g, !.src = s, !.alt = a] :
        g \in {Undefined, <<>>, S_red}, s \in {Undefined, S_x}, a \in {Undefined, S_z}}

IconBlocks ==
    {[EmptyBlock EXCEPT !.type = t, !.emoji = e, !.src = s] :
        t \in {TypeName.icon, TypeName.none, TypeName.image}, e \in {Undefined, S_y}, s \in {Undefined, S_x}}

UnknownTypes ==
    {TypeName.none, TypeName.foo, TypeName.constructor, TypeName.toString, TypeName.proto, TypeName.valueOf, TypeName.hasOwnProperty,
     Undefined, <<>>}

UnknownBlocks ==
    {[EmptyBlock EXCEPT !.type = t, !.text = x] : t \in UnknownTypes, x \in {Undefined, S_x}}

TextBlocks ==
    {[EmptyBlock EXCEPT !.type = t, !.text = x, !.style = s] :
        t \in {TypeName.h1, TypeName.h2, TypeName.h3, TypeName.paragraph},
        x \in {Undefined, S_x, S_boldb, InlineExample},
        s \in {Undefined, S_z}}

ItemInputs ==
    {StringItem(S_x), StringItem(S_boldb), StringItem(<<>>),
     ObjectItem(S_y, S_z), ObjectItem(S_y, Undefined), ObjectItem(S_y, <<>>),
     ObjectItem(Undefined, S_z)}

ListBlocks ==
    {[EmptyBlock EXCEPT !.type = t, !.items = items] :
        t \in {TypeName.bulletList, TypeName.numberedList},
        items \in {NoItems} \cup {Items(l) : l \in StringsUpTo(ItemInputs, MaxItems)}}

\* leaves of the block trees: known types, an unknown type, and known types
\* without their collection field
TreeLeaves ==
    {[EmptyBlock EXCEPT !.type = TypeName.paragraph, !.text = S_x],
     [EmptyBlock EXCEPT !.type = TypeName.h2, !.text = S_y],
     [EmptyBlock EXCEPT !.type = TypeName.bulletList,
                        !.items = Items(<<StringItem(S_x), ObjectItem(S_y, S_z)>>)],
     [EmptyBlock EXCEPT !.type = TypeName.foo],
     [EmptyBlock EXCEPT !.type = TypeName.constructor],
     [EmptyBlock EXCEPT !.type = TypeName.proto],
     [EmptyBlock EXCEPT !.type = TypeName.bulletList],
     [EmptyBlock EXCEPT !.type = TypeName.numberedList],
     [EmptyBlock EXCEPT !.type = TypeName.columns],
     [EmptyBlock EXCEPT !.type = TypeName.centered]}

\* the block types that hold blocks
CompositeTypes ==
    {TypeName.callout, TypeName.columns, TypeName.threeColumns, TypeName.toggle,
     TypeName.numberedToggle, TypeName.centered}

\* a block of composite type t holding the list of blocks
Composite(t, list) ==
    CASE t = TypeName.callout ->
            [EmptyBlock EXCEPT !.type = t, !.icon = S_y, !.contentBlocks = Items(list)]
      [] t = TypeName.columns ->
            [EmptyBlock EXCEPT !.type = t,
                !.columns = Items(<<Col(Items(list), Undefined), Col(Items(<<>>), S_z)>>)]
      [] t = TypeName.threeColumns ->
            [EmptyBlock EXCEPT !.type = t, !.columns = Items(<<Col(Items(list), S_z)>>)]
      [] t = TypeName.toggle ->
            [EmptyBlock EXCEPT !.type = t, !.title = S_x, !.contentBlocks = Items(list)]
      [] t = TypeName.numberedToggle ->
            [EmptyBlock EXCEPT !.type = t, !.title = S_x, !.number = <<"1">>,
                               !.contentBlocks = Items(list)]
      [] t = TypeName.centered ->
            [EmptyBlock EXCEPT !.type = t, !.blocks = Items(list)]

\* the sibling put next to a nested block
SiblingBlock == [EmptyBlock EXCEPT !.type = TypeName.paragraph, !.text = S_boldb]

SiblingModes == {"alone", "before", "after"}

\* the list holding b and, by the mode, its sibling
WithSibling(b, mode) ==
    CASE mode = "alone" -> <<b>>
      [] mode = "before" -> <<SiblingBlock, b>>
      [] mode = "after" -> <<b, SiblingBlock>>

\* the leaf wrapped in composites of the types of the chain, outermost first
RECURSIVE Nest(_, _, _)
Nest(chain, leaf, mode) ==
    IF chain = <<>> THEN leaf
    ELSE Composite(Head(chain), WithSibling(Nest(Tail(chain), leaf, mode), mode))

TreeBlocks ==
    {Nest(chain, leaf, mode) :
        chain \in StringsFrom1(CompositeTypes, MaxDepth),
        leaf \in TreeLeaves, mode \in SiblingModes}

\* composites whose content is text, and a gallery
FlatBlocks ==
    {[EmptyBlock EXCEPT !.type = t, !.content = c, !.title = S_x, !.background = g] :
        t \in {TypeName.callout, TypeName.toggle, TypeName.numberedToggle},
        c \in {Undefined, S_boldb}, g \in {Undefined, S_red}}
    \cup {[EmptyBlock EXCEPT !.type = TypeName.gallery, !.cards = cs] :
            cs \in {NoItems, Items(<<>>), Items(<<Card(S_x, Undefined, Undefined)>>),
                    Items(<<Card(S_x, S_y, S_z), Card(Undefined, Undefined, Undefined)>>)}}

\* the characters of code handed to the code block
CodeAlphabet == {"a", "&", "<", ">", "\"", "*", BT, ";"}

\* code that holds inline markup tokens and entities
CodeExamples ==
    {<<"*", "*", "a", "*", "*">>, <<"*", "a", "*">>, <<"[", "a", "]", "(", "b", ")">>, <<"&", "l", "t", ";">>, <<"&", "a", "m", "p", ";", "a", "m",
                                                 "p",
                                                 ";">>, <<"<", "a", " ", "h",
                                                                "r",
                                                                "e",
                                                                "f",
                                                                "=",
                                                                "\"",
                                                                "x",
                                                                "\"",
                                                                ">">>}

CodeBlocks ==
    {[EmptyBlock EXCEPT !.type = TypeName.code, !.code = c] :
        c \in StringsUpTo(CodeAlphabet, MaxCodeLen) \cup CodeExamples \cup {Undefined}}

BlockInputs ==
    CoverBlocks \cup IconBlocks \cup UnknownBlocks \cup TextBlocks \cup ListBlocks
        \cup TreeBlocks \cup FlatBlocks \cup CodeBlocks

\* configs handed to generatePage
H2Block(t) == [EmptyBlock EXCEPT !.type = TypeName.h2, !.text = t]

TocBlock == [EmptyBlock EXCEPT !.type = TypeName.toc]

\* top-level lists with a nested tree and its sibling
TreeConfigs ==
    {[EmptyConfig EXCEPT !.title = S_x, !.slug = S_z,
                         !.blocks = Items(WithSibling(Nest(chain, leaf, mode), mode))] :
        chain \in StringsUpTo({TypeName.callout, TypeName.columns, TypeName.centered},
                              MaxDepth),
        leaf \in TreeLeaves, mode \in SiblingModes}

\* pages of headings with and without the TOC block and the toc flag
TocConfigs ==
    {[EmptyConfig EXCEPT !.title = S_x, !.slug = S_z, !.toc = t, !.blocks = Items(l)] :
        t \in {Undefined, JsTrue},
        l \in StringsUpTo({H2Block(S_x), H2Block(S_boldb), TocBlock,
                           Composite(TypeName.centered,
                                     <<[H2Block(S_y) EXCEPT !.style = S_red]>>)},
                          MaxBlocks)}

IconInputs ==
    {NoIcon, Icon(TypeName.none, Undefined, Undefined), Icon(Undefined, S_y, Undefined),
     Icon(TypeName.image, Undefined, S_x), Icon(TypeName.image, Undefined, Undefined),
     Icon(TypeName.none, S_y, Undefined), Icon(Undefined, Undefined, Undefined)}

CoverInputs == {NoCover, Cover(S_red, S_x), Cover(Undefined, S_x), Cover(Undefined, Undefined)}

\* pages with the icon, cover, breadcrumb and back link settings
HeaderConfigs ==
    {[EmptyConfig EXCEPT !.title = S_x, !.slug = S_z, !.icon = i, !.cover = c,
                         !.parentPage = p, !.parentHref = p, !.backLink = k,
                         !.blocks = Items(<<H2Block(S_y)>>)] :
        i \in IconInputs, c \in CoverInputs, p \in {Undefined, S_y},
        k \in {Undefined, JsFalse}}

ConfigInputs == TreeConfigs \cup TocConfigs \cup HeaderConfigs \cup {EmptyConfig}

\* rows the posts table may hold
PostInputs ==
    {Post(slug, title, content) :
        slug \in {<<"a">>, <<"b">>, <<"i", "n", "d", "e", "x">>},
        title \in {S_x, S_y},
        content \in {S_boldb, Null, NumberValue}}

FetchedInputs ==
    {Fetched(l) : l \in StringsUpTo(PostInputs, MaxPosts)} \cup {FetchedNull, FetchedObject}

\* Markdown handed to markdownToHtml
MdAlphabet == {"a", " ", "\n", "#", "*", "-", "1", ".", ">", "<"}

MdLineInputs ==
    {<<>>, <<"a">>, <<"#", " ", "T">>, <<"#", "#", " ", "T">>, <<"-", "-", "-">>, <<">", " ", "q">>, <<"1", ".", " ", "a">>, <<"2", ".", " ",
                                                                   "b">>,
     <<"-", " ", "a">>, <<"*", " ", "c", " ", "*", "i", "*">>, <<"x", " ", "*", "*", "b", "*", "*", ".">>, <<BT, BT, BT>>, <<BT, "c", BT, " ", "&", " ", "d">>, <<"[", "d", "]",
                                                                 "(",
                                                                 "e",
                                                                 ")">>}

\* the lines joined by line breaks
JoinLines(lines) == Join(lines, <<"\n">>)

MdDocuments == {JoinLines(ls) : ls \in StringsFrom1(MdLineInputs, MaxLines)}

\* # Title, a blank line, Body **bold**.
MdHeadingExample == <<"#", " ", "T", "i", "t", "l", "e", "\n", "\n", "B", "o", "d",
                      "y", " ", "*", "*", "b", "o", "l", "d",
                      "*", "*", ".">>

\* a, a blank line, the rule, a blank line, b
MdRuleExample == <<"a", "\n", "\n", "-", "-", "-", "\n", "\n", "b">>

\* a rule, a heading and a fenced code block
MdBlockInputs == {<<"-", "-", "-">>, <<"#", " ", "T">>, <<BT, BT, BT, "\n", "c", "\n", BT, BT, BT>>}

\* documents where one of them is a paragraph of its own, separated from
\* the text before and after it by blank lines
OwnParagraphDocs ==
    UNION {{x, <<"a", "\n", "\n">> \o x, x \o <<"\n", "\n", "b">>,
            <<"a", "\n", "\n">> \o x \o <<"\n", "\n", "b">>} : x \in MdBlockInputs}

\* a fenced block: the fence, a language tag, a line break, the content,
\* the fence
FenceParts ==
    {[lang |-> lang, content |-> content] :
        lang \in {<<>>, <<"j", "s">>},
        content \in {<<"c", "\n">>, <<"c">>, <<"*", "*", "b", "*", "*", "\n">>, <<"*", "i", "*", "\n">>, <<"#", " ", "T", "\n">>, <<"-", " ",
                                                                          "a",
                                                                          "\n">>,
                     <<"a", "\n", "\n", "b", "\n">>, <<"a", " ", "<", " ", "b", "\n">>}}

FenceText(p) == Fence \o p.lang \o <<"\n">> \o p.content \o Fence

FenceTexts == {FenceText(p) : p \in FenceParts}

\* what markdownToHtml is called with; of the texts built around one inline
\* token, those that begin with the token
MdInputs ==
    StringsUpTo(MdAlphabet, MaxMdLen) \cup MdDocuments
        \cup {MdHeadingExample, MdRuleExample, Undefined, NumberValue}
        \cup OwnParagraphDocs
        \cup StringsUpTo(InlineAlphabet, MaxInlineLen)
        \cup {InlineExample} \cup {PartsText(p) : p \in {q \in TokenParts : q.pre = <<>>}}
        \cup FenceTexts

\* text without any character the converter looks for
MdPlainAlphabet == {"a", " "}

\* a document built as a level-one heading line, a blank line and a body
\* paragraph holding one bold token
HeadingDocParts ==
    {[kind |-> "headingdoc", title |-> t, pre |-> pre, label |-> l, url |-> <<>>,
      post |-> post] :
        t \in StringsFrom1(MdPlainAlphabet, MaxPlain),
        pre \in StringsUpTo(MdPlainAlphabet, MaxPlain),
        l \in StringsFrom1(MdPlainAlphabet, MaxPlain),
        post \in StringsUpTo(MdPlainAlphabet, MaxPlain)}

HeadingDocText(p) ==
    <<"#", " ">> \o p.title \o <<"\n", "\n">> \o p.pre
        \o <<"*", "*">> \o p.label \o <<"*", "*">> \o p.post

(***************************************************************************)
(* The script of getNavCoverScript as it runs in the browser. The client   *)
(* holds the class dark-mode of body, the text of #theme-icon, the theme   *)
(* item of localStorage (null when absent) and the class active of         *)
(* #overflow-menu; triggerClicks, lastToggle and listenerRan are history:  *)
(* the trigger clicks since the last click outside or the load, the mode   *)
(* the last toggleTheme call chose, and whether the last click reached the *)
(* click listener of document.                                             *)
(***************************************************************************)
\* '‚òÄÔ∏è' and 'üåô' as the bytes of the source file spell them
SunIcon == <<"U+201A", "U+00F2", "U+00C4", "U+00D4", "U+220F", "U+00E8">>
MoonIcon == <<"U+F8FF", "U+00FC", "U+00E5", "U+00F4">>

S_dark == <<"d", "a", "r", "k">>
S_light == <<"l", "i", "g", "h", "t">>

\* no page is open
NoClient ==
    [darkMode |-> FALSE, themeIcon |-> <<>>, theme |-> Null, menuActive |-> FALSE,
     triggerClicks |-> 0, lastToggle |-> "none", listenerRan |-> FALSE]

\* the document as parsed from the template, before the script runs:
\* <body class="dark-mode">, the sun in #theme-icon, the menu without active
ParsedPage(stored, chosen) ==
    [darkMode |-> TRUE, themeIcon |-> SunIcon, theme |-> stored, menuActive |-> FALSE,
     triggerClicks |-> 0, lastToggle |-> chosen, listenerRan |-> FALSE]

\* mutant: the stored theme is not looked at
ThemeInit_AlwaysDark(c) ==
    [c EXCEPT !.darkMode = TRUE, !.themeIcon = SunIcon]

\* (function() { const savedTheme = localStorage.getItem('theme'); ... })()
ThemeInit(c) ==
    IF c.theme = S_light
    THEN [c EXCEPT !.darkMode = FALSE, !.themeIcon = MoonIcon]
    ELSE [c EXCEPT !.darkMode = TRUE, !.themeIcon = SunIcon]

toggleTheme(c) ==
    IF ~c.darkMode
    THEN [c EXCEPT !.darkMode = TRUE, !.themeIcon = SunIcon, !.theme = S_dark,
                   !.lastToggle = "dark"]
    ELSE [c EXCEPT !.darkMode = FALSE, !.themeIcon = MoonIcon, !.theme = S_light,
                   !.lastToggle = "light"]

\* mutant: the click goes on to the listener of document, which does not
\* tell the trigger from any other element
toggleOverflow_Propagates(c) ==
    [c EXCEPT !.menuActive = FALSE, !.listenerRan = TRUE,
              !.triggerClicks = c.triggerClicks + 1]

\* e.stopPropagation(); menu.classList.toggle('active')
toggleOverflow(c) ==
    [c EXCEPT !.menuActive = ~c.menuActive, !.listenerRan = FALSE,
              !.triggerClicks = c.triggerClicks + 1]

\* document.addEventListener('click', (e) => { ... }) for a click whose
\* target is the trigger, inside the menu, or elsewhere
DocumentClick(c, target) ==
    IF c.menuActive /\ target \notin {"menu", "trigger"}
    THEN [c EXCEPT !.menuActive = FALSE, !.listenerRan = TRUE, !.triggerClicks = 0]
    ELSE [c EXCEPT !.listenerRan = TRUE,
                   !.triggerClicks = IF target \in {"menu", "trigger"}
                                     THEN c.triggerClicks ELSE 0]

(***************************************************************************)
(* The calls: Init hands an input to a function, the action is the call.   *)
(***************************************************************************)
InitInline ==
    /\ pc = "call"
    /\ op = "format"
    /\ \/ text \in StringsUpTo(InlineAlphabet, MaxInlineLen)
                        \cup {InlineExample, Undefined}
          /\ parts = NoParts
       \/ parts \in TokenParts
          /\ text = PartsText(parts)
       \/ parts \in BoldPairParts
          /\ text = BoldPairText(parts)
    /\ block = NoBlock
    /\ result = NoResult
    /\ pageConfig = EmptyConfig
    /\ dom = NoDocument
    /\ fetchedPosts = NotFetched
    /\ blog = [exists |-> FALSE, files |-> NoFiles, log |-> <<>>]
    /\ exit = "running"
    /\ client = NoClient

ProcessInlineFormatting ==
    /\ pc = "call"
    /\ op = "format"
    /\ result' = Returned(processInlineFormatting(text))
    /\ pc' = "done"
    /\ UNCHANGED <<op, text, parts, block, pageConfig, dom, fetchedPosts, blog, exit, client>>

NextInline == ProcessInlineFormatting

SpecInline == InitInline /\ [][NextInline]_vars

InitBlock ==
    /\ pc = "call"
    /\ op = "render"
    /\ text = <<>>
    /\ parts = NoParts
    /\ block \in BlockInputs
    /\ result = NoResult
    /\ pageConfig = EmptyConfig
    /\ dom = NoDocument
    /\ fetchedPosts = NotFetched
    /\ blog = [exists |-> FALSE, files |-> NoFiles, log |-> <<>>]
    /\ exit = "running"
    /\ client = NoClient

RenderBlock ==
    /\ pc = "call"
    /\ op = "render"
    /\ result' = renderBlock(block)
    /\ pc' = "done"
    /\ UNCHANGED <<op, text, parts, block, pageConfig, dom, fetchedPosts, blog, exit, client>>

NextBlock == RenderBlock

SpecBlock == InitBlock /\ [][NextBlock]_vars

InitPage ==
    /\ pc = "call"
    /\ op = "page"
    /\ text = <<>>
    /\ parts = NoParts
    /\ block = NoBlock
    /\ pageConfig \in ConfigInputs
    /\ result = NoResult
    /\ dom = NoDocument
    /\ fetchedPosts = NotFetched
    /\ blog = [exists |-> FALSE, files |-> NoFiles, log |-> <<>>]
    /\ exit = "running"
    /\ client = NoClient

GeneratePage ==
    /\ pc = "call"
    /\ op = "page"
    /\ result' = generatePage(pageConfig)
    /\ pc' = "done"
    /\ UNCHANGED <<op, text, parts, block, pageConfig, dom, fetchedPosts, blog, exit, client>>

\* the browser loads the written document and fires DOMContentLoaded
LoadPage ==
    /\ pc = "done"
    /\ op = "page"
    /\ result.kind = "string"
    /\ dom' = IF TocScript(pageConfig) # <<>>
              THEN RunTocScript(ParseDocument(result.val))
              ELSE ParseDocument(result.val)
    /\ pc' = "loaded"
    /\ UNCHANGED <<op, text, parts, block, pageConfig, result, fetchedPosts, blog, exit, client>>

NextPage == GeneratePage \/ LoadPage

SpecPage == InitPage /\ [][NextPage]_vars

InitMd ==
    /\ pc = "call"
    /\ op = "markdown"
    /\ \/ text \in MdInputs
          /\ parts = NoParts
       \/ parts \in HeadingDocParts
          /\ text = HeadingDocText(parts)
    /\ block = NoBlock
    /\ result = NoResult
    /\ pageConfig = EmptyConfig
    /\ dom = NoDocument
    /\ fetchedPosts = NotFetched
    /\ blog = [exists |-> FALSE, files |-> NoFiles, log |-> <<>>]
    /\ exit = "running"
    /\ client = NoClient

MarkdownToHtml ==
    /\ pc = "call"
    /\ op = "markdown"
    /\ result' = markdownToHtml(text)
    /\ pc' = "done"
    /\ UNCHANGED <<op, text, parts, block, pageConfig, dom, fetchedPosts, blog, exit, client>>

NextMd == MarkdownToHtml

SpecMd == InitMd /\ [][NextMd]_vars

InitBuild ==
    /\ pc = "start"
    /\ op = "build"
    /\ text = <<>>
    /\ parts = NoParts
    /\ block = NoBlock
    /\ pageConfig = EmptyConfig
    /\ result = NoResult
    /\ dom = NoDocument
    /\ fetchedPosts = NotFetched
    /\ blog \in {[exists |-> e, files |-> NoFiles, log |-> <<>>] : e \in BOOLEAN}
    /\ exit = "running"
    /\ client = NoClient

\* build() up to await fetchPosts(): the directory is made, the request sent
StartBuild ==
    /\ pc = "start"
    /\ op = "build"
    /\ blog' = [blog EXCEPT !.exists = TRUE]
    /\ pc' = "fetching"
    /\ UNCHANGED <<op, text, parts, block, pageConfig, result, dom, fetchedPosts, exit, client>>

\* the response ends and parses: the promise resolves and build() goes on
FetchResolves ==
    /\ pc = "fetching"
    /\ op = "build"
    /\ \E fetched \in FetchedInputs :
          \E after \in {BuildAfterFetch(blog, fetched)} :
              /\ fetchedPosts' = fetched
              /\ blog' = after.dir
              /\ exit' = after.exit
    /\ pc' = "done"
    /\ UNCHANGED <<op, text, parts, block, pageConfig, result, dom, client>>

\* a network error or a JSON.parse error: the promise rejects, build()
\* rejects and the catch handler calls process.exit(1)
FetchRejects ==
    /\ pc = "fetching"
    /\ op = "build"
    /\ exit' = "exit 1"
    /\ pc' = "done"
    /\ UNCHANGED <<op, text, parts, block, pageConfig, result, dom, fetchedPosts, blog, client>>

NextBuild == StartBuild \/ FetchResolves \/ FetchRejects

SpecBuild == InitBuild /\ [][NextBuild]_vars

\* the values the theme item may hold when a page is opened: absent, or
\* what an earlier visit stored
StoredThemes == {Null, S_dark, S_light}

\* a page of the site has been parsed and its script is about to run
InitClient ==
    /\ pc = "loading"
    /\ op = "browse"
    /\ text = <<>>
    /\ parts = NoParts
    /\ block = NoBlock
    /\ pageConfig = EmptyConfig
    /\ result = NoResult
    /\ dom = NoDocument
    /\ fetchedPosts = NotFetched
    /\ blog = [exists |-> FALSE, files |-> NoFiles, log |-> <<>>]
    /\ exit = "running"
    /\ client \in {ParsedPage(stored, "none") : stored \in StoredThemes}

\* the inline script at the end of body runs: the functions are declared,
\* the click listener is added, the theme is initialised
RunScript ==
    /\ pc = "loading"
    /\ op = "browse"
    /\ client' = ThemeInit(client)
    /\ pc' = "ready"
    /\ UNCHANGED <<op, text, parts, block, pageConfig, result, dom, fetchedPosts, blog, exit>>

\* a click on the theme button: onclick="toggleTheme()", then the event
\* bubbles to document
ClickTheme ==
    /\ pc = "ready"
    /\ op = "browse"
    /\ client' = DocumentClick(toggleTheme(client), "elsewhere")
    /\ UNCHANGED <<pc, op, text, parts, block, pageConfig, result, dom, fetchedPosts, blog, exit>>

\* a click on the trigger: onclick="toggleOverflow(event)"
ClickTrigger ==
    /\ pc = "ready"
    /\ op = "browse"
    /\ client.triggerClicks < MaxClicks
    /\ client' = toggleOverflow(client)
    /\ UNCHANGED <<pc, op, text, parts, block, pageConfig, result, dom, fetchedPosts, blog, exit>>

\* a click inside the menu or anywhere else with no handler of its own
ClickOther ==
    /\ pc = "ready"
    /\ op = "browse"
    /\ \E target \in {"menu", "elsewhere"} : client' = DocumentClick(client, target)
    /\ UNCHANGED <<pc, op, text, parts, block, pageConfig, result, dom, fetchedPosts, blog, exit>>

\* the page is loaded again: the document is parsed anew, localStorage stays
Reload ==
    /\ pc = "ready"
    /\ op = "browse"
    /\ client' = ParsedPage(client.theme, client.lastToggle)
    /\ pc' = "loading"
    /\ UNCHANGED <<op, text, parts, block, pageConfig, result, dom, fetchedPosts, blog, exit>>

NextClient == RunScript \/ ClickTheme \/ ClickTrigger \/ ClickOther \/ Reload

SpecClient == InitClient /\ [][NextClient]_vars

(***************************************************************************)
(* Helpers of the properties.                                              *)
(***************************************************************************)
\* the literal occurs in s
Contains(s, lit) ==
    \E i \in 1..Len(s) :
        /\ i + Len(lit) - 1 <= Len(s)
        /\ \A k \in 1..Len(lit) : s[i + k - 1] = lit[k]

\* the number of places of s where the literal stands
Count(s, lit) ==
    Cardinality({i \in 1..Len(s) :
        /\ i + Len(lit) - 1 <= Len(s)
        /\ \A k \in 1..Len(lit) : s[i + k - 1] = lit[k]})

\* the lines of s: the runs between its line breaks
RECURSIVE SplitLinesFrom(_, _, _)
SplitLinesFrom(s, i, start) ==
    IF i > Len(s) THEN <<SubSeq(s, start, Len(s))>>
    ELSE IF s[i] = "\n"
         THEN <<SubSeq(s, start, i - 1)>> \o SplitLinesFrom(s, i + 1, i + 1)
         ELSE SplitLinesFrom(s, i + 1, start)

SplitLines(s) == SplitLinesFrom(s, 1, 1)

Done(o) == pc = "done" /\ op = o

(***************************************************************************)
(* C1                                                                      *)
(***************************************************************************)
\* C1: for every block whose type is not a registered block type, renderBlock
\* returns a string holding an HTML comment that names the type, and does
\* not throw.
C1_UnknownTypeRendersComment ==
    (Done("render") /\ ToStr(block.type) \notin RegisteredTypes) =>
        /\ result.kind = "string"
        /\ Contains(result.val, <<"<", "!", "-", "-">>)
        /\ Contains(result.val, ToStr(block.type))
        /\ Contains(result.val, <<"-", "-", ">">>)

(***************************************************************************)
(* C2                                                                      *)
(***************************************************************************)
\* the ordered-list example: 1. a, line break, 2. b
OrderedListExample == <<"1", ".", " ", "a", "\n", "2", ".", " ", "b">>

OrderedListDocs ==
    {JoinLines(ls) : ls \in StringsFrom1({<<"1", ".", " ", "a">>, <<"2", ".", " ", "b">>}, MaxLines)}

\* C2: Markdown made of N consecutive ordered-list lines becomes one <ul>
\* holding N <li>; the example becomes <ul><li>a</li><li>b</li></ul>.
C2_OrderedLinesShareOneList ==
    Done("markdown") =>
        /\ text = OrderedListExample =>
               result = Returned(<<"<", "u", "l", ">", "<", "l", "i", ">", "a",
                                   "<", "/", "l",
                                   "i", ">", "<",
                                   "l", "i", ">",
                                   "b", "<", "/",
                                   "l", "i", ">",
                                   "<", "/", "u",
                                   "l", ">">>)
        /\ text \in OrderedListDocs =>
               /\ Count(result.val, <<"<", "u", "l", ">">>) = 1
               /\ Count(result.val, LiOpen) = Len(SplitLines(text))

(***************************************************************************)
(* C3                                                                      *)
(***************************************************************************)
\* C3: every line of the Markdown that begins with > and a space becomes
\* its own <blockquote> element holding the rest of the line.
C3_QuoteLinesBecomeBlockquotes ==
    (Done("markdown") /\ IsString(text)) =>
        \A k \in 1..Len(SplitLines(text)) :
            LET line == SplitLines(text)[k]
            IN  (Len(line) >= 2 /\ line[1] = ">" /\ line[2] = " ") =>
                    Contains(result.val,
                             <<"<", "b", "l", "o", "c", "k", "q", "u", "o", "t",
                               "e", ">">> \o MdEscape(SubSeq(line, 3, Len(line)))
                                 \o <<"<", "/", "b", "l", "o", "c", "k", "q", "u",
                                      "o", "t",
                                      "e", ">">>)

(***************************************************************************)
(* C4                                                                      *)
(***************************************************************************)
\* C4: the icon descriptor whose type is none renders, through renderBlock,
\* as exactly the empty string.
C4_IconNoneRendersEmpty ==
    (Done("render") /\ block.type = TypeName.none) => result = Returned(<<>>)

(***************************************************************************)
(* C5                                                                      *)
(***************************************************************************)
\* C5: for every string, markdownToHtml returns a string and does not throw.
C5_MarkdownTotal ==
    (Done("markdown") /\ IsString(text)) =>
        /\ result.kind = "string"
        /\ \A i \in 1..Len(result.val) : result.val[i] \in STRING

\* a converted string with an unbalanced bold delimiter
C5_Witness ==
    /\ Done("markdown")
    /\ text = <<"*", "*", "a">>
    /\ result.kind = "string"

(***************************************************************************)
(* C6                                                                      *)
(***************************************************************************)
\* C6: a level-one heading line, a blank line and a body paragraph holding
\* a bold token become the <h1> element, outside any paragraph, directly
\* followed by one <p> holding the <strong> span, with no empty paragraph.
C6_HeadingThenParagraph ==
    /\ (Done("markdown") /\ text = MdHeadingExample) =>
           result = Returned(<<"<", "h", "1", ">", "T", "i", "t", "l", "e", "<",
                               "/", "h", "1", ">",
                               "<", "p", ">", "B",
                               "o", "d", "y", " ",
                               "<", "s", "t", "r",
                               "o", "n", "g", ">",
                               "b", "o", "l", "d",
                               "<", "/", "s", "t",
                               "r", "o", "n", "g",
                               ">", ".", "<", "/",
                               "p", ">">>)
    /\ (Done("markdown") /\ parts.kind = "headingdoc") =>
           /\ result = Returned(<<"<", "h", "1", ">">> \o parts.title \o <<"<", "/", "h", "1",
                                                             ">",
                                                             "<",
                                                             "p",
                                                             ">">> \o parts.pre
                                \o StrongOpen \o parts.label \o StrongClose
                                \o parts.post \o PClose)
           /\ ~Contains(result.val, POpen \o PClose)
           /\ ~Contains(result.val, <<"<", "p", ">", "<", "h", "1", ">">>)
           /\ Count(result.val, POpen) = 1

C6_Witness ==
    /\ Done("markdown")
    /\ text = MdHeadingExample
    /\ Contains(result.val, <<"<", "/", "h", "1", ">", "<", "p", ">", "B", "o",
                              "d", "y", " ", "<", "s",
                              "t", "r", "o", "n", "g",
                              ">">>)

(***************************************************************************)
(* C7                                                                      *)
(***************************************************************************)
\* what one token becomes
TokenHtml(p) ==
    CASE p.kind = "bold" -> StrongOpen \o p.label \o StrongClose
      [] p.kind = "italic" -> EmOpen \o p.label \o EmClose
      [] p.kind = "code" -> CodeOpen \o p.label \o CodeClose
      [] p.kind = "link" -> AHref \o p.url \o AClassTextLink \o p.label \o AClose

\* C7: the round-trip example gives exactly the four wrappers with the text
\* between them kept; each token form on its own is replaced by its wrapper
\* and the text around it is unchanged.
C7_InlineTokensWrapped ==
    /\ (Done("format") /\ text = InlineExample) =>
           result = Returned(
               <<"<", "s", "t", "r", "o", "n", "g", ">", "a", "<", "/", "s", "t",
                 "r", "o", "n", "g", ">", " ", "<", "e", "m", ">",
                 "b", "<", "/", "e", "m", ">", " ", "<", "c", "o",
                 "d", "e", ">", "c", "<", "/", "c", "o", "d", "e",
                 ">", " ">>
                   \o <<"<", "a", " ", "h", "r", "e", "f", "=", "\"", "e", "\"",
                        " ", "c", "l", "a", "s", "s", "=",
                        "\"", "t", "e", "x", "t", "-", "l",
                        "i", "n", "k", "\"", ">", "d", "<",
                        "/", "a", ">">>)
    /\ (Done("format") /\ parts.kind \in TokenKinds) =>
           result = Returned(parts.pre \o TokenHtml(parts) \o parts.post)

C7_Witness ==
    /\ Done("format")
    /\ text = InlineExample
    /\ Contains(result.val, <<"<", "/", "e", "m", ">", " ", "<", "c", "o", "d",
                              "e", ">", "c", "<", "/",
                              "c", "o", "d", "e", ">",
                              " ", "<", "a", " ", "h",
                              "r", "e", "f", "=", "\"",
                              "e", "\"">>)

(***************************************************************************)
(* C8                                                                      *)
(***************************************************************************)
\* two occurrences of the character on one line of s
HasPairOnLine(s, c) ==
    \E i, j \in 1..Len(s) :
        /\ i < j
        /\ s[i] = c
        /\ s[j] = c
        /\ \A k \in (i + 1)..(j - 1) : s[k] # "\n"

\* the form [label](url) with a label and a url of one character or more
HasLinkForm(s) ==
    \E i, j, k \in 1..Len(s) :
        /\ i + 1 < j
        /\ j + 2 < k
        /\ s[i] = "["
        /\ s[j] = "]"
        /\ s[j + 1] = "("
        /\ s[k] = ")"
        /\ \A n \in (i + 1)..(j - 1) : s[n] # "]"
        /\ \A n \in (j + 2)..(k - 1) : s[n] # ")"

NoInlineToken(s) ==
    /\ IsString(s)
    /\ ~HasPairOnLine(s, "*")
    /\ ~HasPairOnLine(s, BT)
    /\ ~HasLinkForm(s)

\* C8: a text without an inline markup token comes back unchanged, and
\* formatting the result again changes nothing.
C8_NoTokenUnchanged ==
    (Done("format") /\ NoInlineToken(text)) =>
        /\ result = Returned(text)
        /\ processInlineFormatting(result.val) = result.val

\* a token-free text that still holds the characters the transform looks for
C8_Witness ==
    /\ Done("format")
    /\ text = <<"*", "\n", "*">>
    /\ result = Returned(text)

(***************************************************************************)
(* C9                                                                      *)
(***************************************************************************)
\* the em-dash, U+2014
EmDash == "U+2014"

\* the list item the claim describes
C9_ExpectedItem(item) ==
    IF item.kind = "string"
    THEN LiOpen \o processInlineFormatting(item.s) \o LiClose
    ELSE LiOpen \o StrongOpen \o item.lead \o StrongClose
         \o (IF Truthy(item.text) THEN <<" ", EmDash, " ">> \o item.text ELSE <<>>)
         \o LiClose

\* C9: a bulletList renders as <ul>, a line break, one <li> per item joined
\* by line breaks, a line break, </ul>; a lead with text renders as the lead
\* in <strong>, space, em-dash, space, text.
C9_BulletListLayout ==
    (/\ Done("render")
     /\ block.type = TypeName.bulletList
     /\ block.items.defined
     /\ \A k \in 1..Len(block.items.list) :
            block.items.list[k].kind = "object" => block.items.list[k].lead # Undefined) =>
        result = Returned(
            <<"<", "u", "l", ">", "\n">>
            \o Join([k \in 1..Len(block.items.list) |->
                        C9_ExpectedItem(block.items.list[k])], <<"\n">>)
            \o <<"\n", "<", "/", "u", "l", ">">>)

(***************************************************************************)
(* C10                                                                     *)
(***************************************************************************)
\* C10: a cover block with a non-empty gradient renders as the div with that
\* gradient as its background and holds no <img>, whatever src it has; an
\* <img> with the src appears only without a gradient.
C10_GradientBeatsSrc ==
    (Done("render") /\ block.type = TypeName.cover) =>
        /\ Truthy(block.gradient) =>
               /\ result = Returned(
                      <<"<", "d", "i", "v", " ", "c", "l", "a", "s", "s", "=",
                        "\"", "c", "o", "v", "e", "r", "-",
                        "i", "m", "a", "g", "e", "\"", " ",
                        "s", "t", "y", "l", "e", "=", "\"",
                        "b", "a", "c", "k", "g", "r", "o",
                        "u", "n", "d", ":", " ">>
                      \o block.gradient \o <<";", " ", "h", "e", "i", "g", "h",
                                             "t",
                                             ":",
                                             " ",
                                             "3",
                                             "0",
                                             "v",
                                             "h",
                                             ";",
                                             "\"",
                                             ">",
                                             "<",
                                             "/",
                                             "d",
                                             "i",
                                             "v",
                                             ">">>)
               /\ ~Contains(result.val, <<"<", "i", "m", "g">>)
        /\ Contains(result.val, <<"<", "i", "m", "g">>) =>
               /\ ~Truthy(block.gradient)
               /\ Contains(result.val, <<"<", "i", "m", "g", " ", "s", "r", "c",
                                         "=",
                                         "\"">> \o ToStr(block.src) \o <<"\"">>)

\* a cover with both a gradient and a src, rendered as the gradient div
C10_Witness ==
    /\ Done("render")
    /\ block.type = TypeName.cover
    /\ block.gradient = S_red
    /\ block.src = S_x
    /\ Contains(result.val, <<"b", "a", "c", "k", "g", "r", "o", "u", "n", "d",
                              ":", " ", "r", "e", "d",
                              ";">>)

(***************************************************************************)
(* C11                                                                     *)
(***************************************************************************)
\* the blocks a block holds, in document order
ChildBlocks(b) ==
    IF b.type \in {TypeName.callout, TypeName.toggle, TypeName.numberedToggle}
    THEN b.contentBlocks.list
    ELSE IF b.type \in {TypeName.columns, TypeName.threeColumns}
    THEN Join([k \in 1..Len(b.columns.list) |-> b.columns.list[k].blocks.list], <<>>)
    ELSE IF b.type = TypeName.centered THEN b.blocks.list
    ELSE <<>>

\* a tree of known-type blocks, each with the collection field of its type
RECURSIVE KnownTree(_)
KnownTree(b) ==
    /\ b.type \in RegisteredTypes
    /\ b.type \in {TypeName.bulletList, TypeName.numberedList} => b.items.defined
    /\ b.type \in {TypeName.columns, TypeName.threeColumns} =>
          /\ b.columns.defined
          /\ \A k \in 1..Len(b.columns.list) : b.columns.list[k].blocks.defined
    /\ b.type = TypeName.centered => b.blocks.defined
    /\ b.type = TypeName.gallery => b.cards.defined
    /\ \A k \in 1..Len(ChildBlocks(b)) : KnownTree(ChildBlocks(b)[k])

\* the least index >= i of out where the literal stands, 0 when there is none
IndexFrom(out, i, lit) ==
    LET at == {p \in i..(Len(out) + 1) : StartsAt(out, p, lit)}
    IN  IF at = {} THEN 0 ELSE CHOOSE p \in at : \A q \in at : p <= q

\* the fragments stand in out one after another, from index i on, and text
\* of out is left after the last
RECURSIVE InOrderFrom(_, _, _, _)
InOrderFrom(out, frags, k, i) ==
    IF k > Len(frags) THEN i <= Len(out)
    ELSE LET p == IndexFrom(out, i, frags[k])
         IN  p # 0 /\ InOrderFrom(out, frags, k + 1, p + Len(frags[k]))

\* the output of b holds the output of each block b holds, in order and
\* between the opening and the closing text of b, and so on downwards
RECURSIVE FragmentsNested(_)
FragmentsNested(b) ==
    LET kids == ChildBlocks(b)
    IN  /\ kids # <<>> =>
              InOrderFrom(renderBlock(b).val,
                          [k \in 1..Len(kids) |-> renderBlock(kids[k]).val], 1, 2)
        /\ \A k \in 1..Len(kids) : FragmentsNested(kids[k])

\* C11: for every tree of known-type blocks, renderBlock returns a string
\* that holds the rendering of every descendant in document order inside
\* its parent's wrapper, and holds no [object Object].
C11_NestedBlocksResolved ==
    (Done("render") /\ KnownTree(block) /\ ChildBlocks(block) # <<>>) =>
        /\ result.kind = "string"
        /\ FragmentsNested(block)
        /\ ~Contains(result.val, <<"[", "o", "b", "j", "e", "c", "t", " ", "O",
                                   "b", "j", "e",
                                   "c", "t", "]">>)
        /\ ~Contains(result.val, <<"U", "n", "k", "n", "o", "w", "n", " ", "b",
                                   "l", "o", "c",
                                   "k", " ", "t",
                                   "y", "p", "e">>)

\* columns holding a callout holding a bulletList
C11_Witness ==
    /\ Done("render")
    /\ block.type = TypeName.columns
    /\ KnownTree(block)
    /\ \E k \in 1..Len(ChildBlocks(block)) :
          LET c == ChildBlocks(block)[k]
          IN  /\ c.type = TypeName.callout
              /\ \E j \in 1..Len(ChildBlocks(c)) :
                    ChildBlocks(c)[j].type = TypeName.bulletList
    /\ Contains(result.val, <<"<", "l", "i", ">", "<", "s", "t", "r", "o", "n",
                              "g", ">", "Y", "<", "/",
                              "s", "t", "r", "o", "n",
                              "g", ">">>)

(***************************************************************************)
(* C12                                                                     *)
(***************************************************************************)
\* a known-type block without the collection field of its type
LacksCollection(b) ==
    \/ b.type \in {TypeName.bulletList, TypeName.numberedList} /\ ~b.items.defined
    \/ b.type \in {TypeName.columns, TypeName.threeColumns} /\ ~b.columns.defined
    \/ b.type = TypeName.centered /\ ~b.blocks.defined

\* the blocks of the tree of b, b included
RECURSIVE TreeOf(_)
TreeOf(b) ==
    {b} \cup UNION {TreeOf(ChildBlocks(b)[k]) : k \in 1..Len(ChildBlocks(b))}

\* the blocks of the trees of a list
ListTree(list) == UNION {TreeOf(list[k]) : k \in 1..Len(list)}

\* what the claim expects a block of a list to contribute
ExpectedFragment(b) ==
    IF ToStr(b.type) \in RegisteredTypes THEN renderBlock(b).val
    ELSE UnknownComment(b.type)

\* the output of every known composite of the tree holds, in list order,
\* the rendering of each known block and the comment of each unknown one
RECURSIVE SiblingsRendered(_)
SiblingsRendered(b) ==
    LET kids == ChildBlocks(b)
    IN  (ToStr(b.type) \in RegisteredTypes /\ kids # <<>>) =>
            /\ renderBlock(b).kind = "string"
            /\ InOrderFrom(renderBlock(b).val,
                           [k \in 1..Len(kids) |-> ExpectedFragment(kids[k])], 1, 2)
            /\ \A k \in 1..Len(kids) : SiblingsRendered(kids[k])

\* C12: when a block list, top-level or nested, holds blocks of unknown type
\* among known ones, generatePage returns the document, and each list's
\* output holds in list order the rendering of every known block and one
\* comment per unknown block.
C12_UnknownSiblingsKeepRendering ==
    (/\ Done("page")
     /\ pageConfig.blocks.defined
     /\ \A b \in ListTree(pageConfig.blocks.list) : ~LacksCollection(b)) =>
        /\ result.kind = "string"
        /\ InOrderFrom(result.val,
                       [k \in 1..Len(pageConfig.blocks.list) |->
                           ExpectedFragment(pageConfig.blocks.list[k])], 1, 2)
        /\ \A k \in 1..Len(pageConfig.blocks.list) :
              SiblingsRendered(pageConfig.blocks.list[k])

(***************************************************************************)
(* C13                                                                     *)
(***************************************************************************)
\* C13: a known-type block without its collection field makes renderBlock
\* throw, and generatePage returns no document for a config that holds such
\* a block at any depth.
C13_MissingCollectionIsFatal ==
    (/\ Done("page")
     /\ pageConfig.blocks.defined
     /\ \E b \in ListTree(pageConfig.blocks.list) : LacksCollection(b)) =>
        /\ result.kind = "throw"
        /\ \A b \in ListTree(pageConfig.blocks.list) :
              LacksCollection(b) => renderBlock(b).kind = "throw"

\* a list without items two composites deep, next to a paragraph
C13_Witness ==
    /\ Done("page")
    /\ pageConfig.blocks.defined
    /\ \E k \in 1..Len(pageConfig.blocks.list) :
          \E c \in {ChildBlocks(pageConfig.blocks.list[k])[i] :
                        i \in 1..Len(ChildBlocks(pageConfig.blocks.list[k]))} :
              \E j \in 1..Len(ChildBlocks(c)) :
                  /\ ChildBlocks(c)[j].type = TypeName.bulletList
                  /\ LacksCollection(ChildBlocks(c)[j])
    /\ \E b \in ListTree(pageConfig.blocks.list) : b = SiblingBlock
    /\ result.kind = "throw"

(***************************************************************************)
(* C14                                                                     *)
(***************************************************************************)
\* the character or entity the claim assigns to one character of the code
EntityOf(c) ==
    CASE c = "&" -> <<"&", "a", "m", "p", ";">>
      [] c = "<" -> <<"&", "l", "t", ";">>
      [] c = ">" -> <<"&", "g", "t", ";">>
      [] c = "\"" -> <<"&", "q", "u", "o", "t", ";">>
      [] OTHER -> <<c>>

\* the text between the opening tag and the closing tag of the code block
CodeInner(out) ==
    SubSeq(out, Len(<<"<", "d", "i", "v", " ", "c", "l", "a", "s", "s", "=", "\"",
                      "c", "o", "d", "e", "-", "b", "l", "o",
                      "c", "k", "\"", ">">>) + 1, Len(out) - Len(<<"<", "/",
                                                                        "d",
                                                                        "i",
                                                                        "v",
                                                                        ">">>))

\* C14: the code block holds between its wrapper tags no raw <, > or ",
\* every & starts one of the four entities, each character of the code maps
\* to one character or entity in order, and inline markup is not
\* transformed.
C14_CodeIsEscapedOnly ==
    (Done("render") /\ block.type = TypeName.code /\ IsString(block.code)) =>
        /\ result.kind = "string"
        /\ StartsAt(result.val, 1, <<"<", "d", "i", "v", " ", "c", "l", "a", "s",
                                     "s", "=",
                                     "\"", "c",
                                     "o", "d",
                                     "e", "-",
                                     "b", "l",
                                     "o", "c",
                                     "k", "\"",
                                     ">">>)
        /\ StartsAt(result.val, Len(result.val) - 5, <<"<", "/", "d", "i", "v", ">">>)
        /\ LET inner == CodeInner(result.val)
           IN  /\ \A i \in 1..Len(inner) : inner[i] \notin {"<", ">", "\""}
               /\ \A i \in 1..Len(inner) :
                     inner[i] = "&" =>
                         \/ StartsAt(inner, i, <<"&", "a", "m", "p", ";">>)
                         \/ StartsAt(inner, i, <<"&", "l", "t", ";">>)
                         \/ StartsAt(inner, i, <<"&", "g", "t", ";">>)
                         \/ StartsAt(inner, i, <<"&", "q", "u", "o", "t", ";">>)
               /\ inner = Join([k \in 1..Len(block.code) |-> EntityOf(block.code[k])],
                               <<>>)

\* code holding an entity-like text and markup delimiters
C14_Witness ==
    /\ Done("render")
    /\ block.type = TypeName.code
    /\ block.code = <<"&", "<", "*">>
    /\ CodeInner(result.val) = <<"&", "a", "m", "p", ";", "&", "l", "t", ";", "*">>

(***************************************************************************)
(* C15                                                                     *)
(***************************************************************************)
\* the href values of the links of markup, in order
LinkHrefs(markup) ==
    LET starts == Ascending({p \in 1..Len(markup) : StartsAt(markup, p, <<"<", "a",
                                                                          " ",
                                                                          "h",
                                                                          "r",
                                                                          "e",
                                                                          "f",
                                                                          "=",
                                                                          "\"">>)})
    IN  [k \in 1..Len(starts) |->
            LET from == starts[k] + Len(<<"<", "a", " ", "h", "r", "e", "f", "=",
                                          "\"">>)
            IN  SubSeq(markup, from, NextIndex(markup, from, <<"\"">>) - 1)]

\* every h2 has the id section-<i>, i its zero-based position, and the TOC
\* container holds one link per h2, in order, to #section-<i>
TocNumbered ==
    /\ \A k \in 1..Len(dom.h2) : dom.h2[k].id = <<"s", "e", "c", "t", "i", "o",
                                                  "n",
                                                  "-">> \o Decimal(k - 1)
    /\ LinkHrefs(dom.tocLinks.innerHTML) =
           [k \in 1..Len(dom.h2) |-> <<"#", "s", "e", "c", "t", "i", "o", "n", "-">> \o Decimal(k - 1)]

C16_DefaultIconIsProfileImage ==
    (Done("page") /\ result.kind = "string") =>
        /\ ~pageConfig.icon.defined =>
              Contains(result.val,
                       <<"<", "d", "i", "v", " ", "c", "l", "a", "s", "s", "=",
                         "\"", "p", "a", "g", "e", "-", "i",
                         "c", "o", "n", "\"", ">", "<", "i",
                         "m", "g", " ", "s", "r", "c", "=",
                         "\"">> \o PROFILE_IMAGE)
        /\ (pageConfig.icon.defined /\ pageConfig.icon.type = TypeName.none) =>
              ~Contains(result.val, <<"c", "l", "a", "s", "s", "=", "\"", "p", "a",
                                      "g", "e",
                                      "-", "i",
                                      "c", "o",
                                      "n", "\"">>)

(***************************************************************************)
(* C17                                                                     *)
(***************************************************************************)
\* C17: after a successful build over n >= 1 fetched posts the blog
\* directory holds for every post the file <slug>.html with that post's own
\* page, and index.html with the index of all posts.
C17_EveryPostKeepsItsPage ==
    (/\ Done("build")
     /\ exit = "exit 0"
     /\ fetchedPosts.kind = "array"
     /\ Len(fetchedPosts.list) >= 1) =>
        /\ \A k \in 1..Len(fetchedPosts.list) :
              /\ PostFilename(fetchedPosts.list[k]) \in DOMAIN blog.files
              /\ blog.files[PostFilename(fetchedPosts.list[k])] =
                     generatePostHtml(fetchedPosts.list[k]).val
        /\ <<"i", "n", "d", "e", "x", ".", "h", "t", "m", "l">> \in DOMAIN blog.files
        /\ blog.files[<<"i", "n", "d", "e", "x", ".", "h", "t", "m", "l">>] = generateBlogIndex(fetchedPosts.list).val

(***************************************************************************)
(* C19                                                                     *)
(***************************************************************************)
\* C19: a heading, a horizontal rule or a fenced code block that forms its
\* own paragraph appears with no <p> directly before it and no </p> directly
\* after it; a, blank line, ---, blank line, b yields <p>a</p><hr><p>b</p>.
C19_BlockElementsUnwrapped ==
    (Done("markdown") /\ text \in OwnParagraphDocs) =>
        /\ result.kind = "string"
        /\ ~Contains(result.val, <<"<", "p", ">", "<", "h">>)
        /\ ~Contains(result.val, <<"<", "p", ">", "<", "p", "r", "e", ">">>)
        /\ ~Contains(result.val, <<"<", "/", "h", "1", ">", "<", "/", "p", ">">>)
        /\ ~Contains(result.val, <<"<", "h", "r", ">", "<", "/", "p", ">">>)
        /\ ~Contains(result.val, <<"<", "/", "p", "r", "e", ">", "<", "/", "p", ">">>)
        /\ text = MdRuleExample => result.val = <<"<", "p", ">", "a", "<", "/",
                                                  "p",
                                                  ">",
                                                  "<",
                                                  "h",
                                                  "r",
                                                  ">",
                                                  "<",
                                                  "p",
                                                  ">",
                                                  "b",
                                                  "<",
                                                  "/",
                                                  "p",
                                                  ">">>

(***************************************************************************)
(* C20                                                                     *)
(***************************************************************************)
\* the tags the converter writes, up to the end of the tag name
ConverterTags ==
    {<<"<", "h", "1", ">">>, <<"<", "h", "2", ">">>, <<"<", "h", "3", ">">>, <<"<", "/", "h", "1", ">">>, <<"<", "/", "h", "2", ">">>, <<"<", "/", "h", "3", ">">>,
     <<"<", "s", "t", "r", "o", "n", "g", ">">>, <<"<", "/", "s", "t", "r", "o", "n", "g", ">">>, <<"<", "e", "m", ">">>, <<"<", "/", "e", "m", ">">>, <<"<", "p", "r", "e", ">">>, <<"<", "/", "p",
                                                                    "r",
                                                                    "e",
                                                                    ">">>,
     <<"<", "c", "o", "d", "e", ">">>, <<"<", "/", "c", "o", "d", "e", ">">>, <<"<", "a", " ", "h", "r", "e", "f", "=", "\"">>, <<"<", "/", "a", ">">>, <<"<", "l", "i", ">">>, <<"<", "/", "l",
                                                                   "i",
                                                                   ">">>,
     <<"<", "u", "l", ">">>, <<"<", "/", "u", "l", ">">>, <<"<", "b", "l", "o", "c", "k", "q", "u", "o", "t", "e",
                            ">">>, <<"<", "/", "b", "l", "o", "c", "k",
                                              "q",
                                              "u",
                                              "o",
                                              "t",
                                              "e",
                                              ">">>, <<"<", "h", "r", ">">>,
     <<"<", "p", ">">>, <<"<", "/", "p", ">">>, <<"<", "b", "r", ">">>}

\* C20: in every output of markdownToHtml each < is the first character of
\* a tag the converter wrote; no < of the input survives unescaped.
C20_EveryAngleOpensConverterTag ==
    (Done("markdown") /\ IsString(text)) =>
        /\ result.kind = "string"
        /\ \A i \in 1..Len(result.val) :
              result.val[i] = "<" => \E tag \in ConverterTags : StartsAt(result.val, i, tag)

\* an input holding < next to markup
C20_Witness ==
    /\ Done("markdown")
    /\ text = <<"<", "*", "<">>
    /\ Contains(result.val, <<"&", "l", "t", ";">>)

(***************************************************************************)
(* C21                                                                     *)
(***************************************************************************)
\* C21: for a text whose asterisks occur only as well-formed **x** pairs on
\* one line, processInlineFormatting gives one <strong>x</strong> per pair,
\* no <em> element, and leaves no asterisk in the output.
C21_BoldPairsOnlyStrong ==
    (Done("format") /\ parts.kind = "boldpair") =>
            /\ result.kind = "string"
            /\ Count(result.val, StrongOpen) = (IF parts.y = <<>> THEN 1 ELSE 2)
            /\ Count(result.val, StrongClose) = (IF parts.y = <<>> THEN 1 ELSE 2)
            /\ Contains(result.val, StrongOpen \o parts.x \o StrongClose)
            /\ parts.y # <<>> => Contains(result.val, StrongOpen \o parts.y \o StrongClose)
            /\ ~Contains(result.val, EmOpen)
            /\ ~Contains(result.val, <<"*">>)

\* two bold tokens with nothing between them
C21_Witness ==
    /\ Done("format")
    /\ text = <<"*", "*", "a", "*", "*", "*", "*", "b", "*", "*">>
    /\ result = Returned(<<"<", "s", "t", "r", "o", "n", "g", ">", "a", "<", "/",
                           "s", "t", "r", "o", "n", "g",
                           ">", "<", "s", "t", "r", "o",
                           "n", "g", ">", "b", "<", "/",
                           "s", "t", "r", "o", "n", "g",
                           ">">>)

(***************************************************************************)
(* C22                                                                     *)
(***************************************************************************)
\* a line starts with a block marker: # , ## , ### , a bullet or a number
\* with a full stop followed by white space, > followed by white space, or
\* the line is ---
LineStartMarker(s) ==
    \/ StartsAt(s, 1, <<"#", " ">>) \/ StartsAt(s, 1, <<"#", "#", " ">>) \/ StartsAt(s, 1, <<"#",
                                                                             "#",
                                                                             "#",
                                                                             " ">>)
    \/ LineItemAt(s, 1, "bullet") # <<0, 0>>
    \/ LineItemAt(s, 1, "ordered") # <<0, 0>>
    \/ LineItemAt(s, 1, "quote") # <<0, 0>>
    \/ s = <<"-", "-", "-">>

\* a single-line text with no &, <, > and no block marker
InlineOnlyLine(s) ==
    /\ IsString(s)
    /\ \A i \in 1..Len(s) : s[i] \notin {"\n", "&", "<", ">"}
    /\ ~LineStartMarker(s)

\* C22 as stated: for every single-line text with no &, <, > and no
\* line-start block marker, markdownToHtml(text) equals <p> +
\* processInlineFormatting(text) + </p>, links included.
C22_SameInlineTransform ==
    (Done("markdown") /\ InlineOnlyLine(text)) =>
        result = Returned(POpen \o processInlineFormatting(text) \o PClose)

\* C22 amended: for every such text that is not empty, markdownToHtml(text)
\* equals <p> + processInlineFormatting(text) + </p> with the class
\* attribute of each link left out.
C22_SameInlineTransformBarLinkClass ==
    (Done("markdown") /\ InlineOnlyLine(text) /\ text # <<>>) =>
        result = Returned(POpen
                     \o ReplaceLit(processInlineFormatting(text), <<" ", "c", "l",
                                                                    "a",
                                                                    "s",
                                                                    "s",
                                                                    "=",
                                                                    "\"",
                                                                    "t",
                                                                    "e",
                                                                    "x",
                                                                    "t",
                                                                    "-",
                                                                    "l",
                                                                    "i",
                                                                    "n",
                                                                    "k",
                                                                    "\"">>, <<>>)
                     \o PClose)

\* the example with all four token forms
C22_Witness ==
    /\ Done("markdown")
    /\ text = InlineExample
    /\ Contains(result.val, <<"<", "c", "o", "d", "e", ">", "c", "<", "/", "c",
                              "o", "d", "e", ">", " ",
                              "<", "a", " ", "h", "r",
                              "e", "f", "=", "\"", "e",
                              "\"", ">", "d", "<", "/",
                              "a", ">", "<", "/", "p",
                              ">">>)

(***************************************************************************)
(* C23                                                                     *)
(***************************************************************************)
\* the index after the marker "- ", "* " or "N. " a line begins with, 0 when
\* it begins with none of them
ListMarkerEnd(l) ==
    IF StartsAt(l, 1, <<"-", " ">>) \/ StartsAt(l, 1, <<"*", " ">>) THEN 3
    ELSE IF SkipDigits(l, 1) > 1 /\ StartsAt(l, SkipDigits(l, 1), <<".", " ">>)
         THEN SkipDigits(l, 1) + 2
    ELSE 0

\* the rest of a list line after its marker, with the inline substitutions
\* of the converter applied
ListLineRest(l) ==
    MdLink(MdInlineCode(MdItalic(MdBold(MdEscape(
        SubSeq(l, SkipSpace(l, ListMarkerEnd(l)), Len(l)))))))

\* C23: for every Markdown input, each line that begins with "- ", "* " or
\* "N. " is converted into exactly one <li> element holding the rest of
\* that line, also when the line holds emphasis markup such as
\* * item with *emphasis*.
C23_EveryListLineBecomesItem ==
    (Done("markdown") /\ IsString(text) /\ text # <<>>) =>
        LET ls == SplitLines(text)
            marked == {k \in 1..Len(ls) : ListMarkerEnd(ls[k]) # 0}
        IN  /\ result.kind = "string"
            /\ Count(result.val, LiOpen) >= Cardinality(marked)
            /\ \A k \in marked :
                  Contains(result.val, LiOpen \o ListLineRest(ls[k]) \o LiClose)

(***************************************************************************)
(* C24                                                                     *)
(***************************************************************************)
\* the opening tag of a heading or paragraph block up to its attributes
TagStart(t) ==
    CASE t = TypeName.h1 -> <<"<", "h", "1", " ", "c", "l", "a", "s", "s", "=",
                              "\"", "p", "a", "g", "e",
                              "-", "t", "i", "t", "l",
                              "e", "\"">>
      [] t = TypeName.h2 -> <<"<", "h", "2">>
      [] t = TypeName.h3 -> <<"<", "h", "3">>
      [] t = TypeName.paragraph -> <<"<", "p">>

TagEnd(t) ==
    CASE t = TypeName.h1 -> <<"<", "/", "h", "1", ">">>
      [] t = TypeName.h2 -> <<"<", "/", "h", "2", ">">>
      [] t = TypeName.h3 -> <<"<", "/", "h", "3", ">">>
      [] t = TypeName.paragraph -> <<"<", "/", "p", ">">>

\* C24: h1, h2 and h3 blocks emit their text verbatim, inline markup tokens
\* staying literal, with the optional style passed through as an attribute;
\* the text of a paragraph block goes through processInlineFormatting.
C24_HeadingsRawParagraphFormatted ==
    (/\ Done("render")
     /\ block.type \in {TypeName.h1, TypeName.h2, TypeName.h3, TypeName.paragraph}
     /\ IsString(block.text)) =>
        LET attr == IF IsString(block.style) /\ block.style # <<>>
                    THEN <<" ", "s", "t", "y", "l", "e", "=", "\"">> \o block.style \o <<"\"">>
                    ELSE <<>>
            inner == IF block.type = TypeName.paragraph
                     THEN processInlineFormatting(block.text)
                     ELSE block.text
        IN  result = Returned(TagStart(block.type) \o attr \o <<">">> \o inner
                              \o TagEnd(block.type))

\* a heading whose text holds every inline token form, with a style
C24_Witness ==
    /\ Done("render")
    /\ block.type = TypeName.h2
    /\ block.text = InlineExample
    /\ block.style = S_z
    /\ Contains(result.val, <<"<", "h", "2", " ", "s", "t", "y", "l", "e", "=",
                              "\"", "z", "\"", ">",
                              "*", "*", "a", "*", "*",
                              " ", "*", "b", "*", " ">>)

(***************************************************************************)
(* C25                                                                     *)
(***************************************************************************)
\* C25: for every string input the output of markdownToHtml never holds
\* <p></p>: the empty paragraphs of the paragraph wrap are removed and no
\* later clean-up step makes a new one.
C25_NoEmptyParagraph ==
    (Done("markdown") /\ IsString(text)) =>
        /\ result.kind = "string"
        /\ ~Contains(result.val, POpen \o PClose)

\* blank lines before the text: the wrap makes an empty paragraph first
C25_Witness ==
    /\ Done("markdown")
    /\ text = <<"\n", "\n", "a">>
    /\ result = Returned(<<"<", "p", ">", "a", "<", "/", "p", ">">>)

(***************************************************************************)
(* C26                                                                     *)
(***************************************************************************)
\* the places of s where <p> stands, and where </p> stands
POpenAt(s) == {i \in 1..Len(s) : StartsAt(s, i, POpen)}
PCloseAt(s) == {i \in 1..Len(s) : StartsAt(s, i, PClose)}

\* <p> and </p> alternate in s, the first tag being <p> and the last </p>
ParagraphTagsAlternate(s) ==
    /\ \A i \in POpenAt(s) :
          \E j \in PCloseAt(s) :
              /\ i < j
              /\ \A k \in (i + 1)..(j - 1) : k \notin POpenAt(s) \cup PCloseAt(s)
    /\ \A j \in PCloseAt(s) :
          \E i \in POpenAt(s) :
              /\ i < j
              /\ \A k \in (i + 1)..(j - 1) : k \notin POpenAt(s) \cup PCloseAt(s)

\* C26: in every output of markdownToHtml the paragraph tags are balanced:
\* <p> and </p> strictly alternate, starting with <p> and ending with </p>,
\* also when a heading or a rule is next to text with one line break between.
C26_ParagraphTagsBalanced ==
    (Done("markdown") /\ IsString(text)) =>
        /\ result.kind = "string"
        /\ ParagraphTagsAlternate(result.val)

(***************************************************************************)
(* C27                                                                     *)
(***************************************************************************)
\* C27: the content of a fenced block reaches the <pre><code> element
\* unchanged apart from the escaping of &, < and >, and the language tag is
\* dropped.
C27_FenceContentKept ==
    \A p \in FenceParts :
        (Done("markdown") /\ text = FenceText(p)) =>
            /\ result.kind = "string"
            /\ Contains(result.val,
                        <<"<", "p", "r", "e", ">", "<", "c", "o", "d", "e", ">">> \o MdEscape(p.content) \o <<"<", "/", "c",
                                                                    "o",
                                                                    "d",
                                                                    "e",
                                                                    ">",
                                                                    "<",
                                                                    "/",
                                                                    "p",
                                                                    "r",
                                                                    "e",
                                                                    ">">>)
            /\ p.lang # <<>> => ~Contains(result.val, p.lang)

(***************************************************************************)
(* C28                                                                     *)
(***************************************************************************)
Ready == pc = "ready" /\ op = "browse"

C30_MenuOpenIffOddTriggerClicks ==
    /\ [](Ready => (client.menuActive <=> client.triggerClicks % 2 = 1))
    /\ [][ClickTrigger =>
             /\ client'.menuActive # client.menuActive
             /\ ~client'.listenerRan]_vars

\* the menu is open after three clicks on the trigger
C30_Witness ==
    /\ Ready
    /\ client.menuActive
    /\ client.triggerClicks = 3

(***************************************************************************)
(* C29                                                                     *)
(***************************************************************************)
\* C29: no post page and no index is written unless the fetch resolved with
\* a list of one post or more; a fetch that fails ends the run with exit
\* status 1 and no file written, an empty list ends it normally with no
\* file written, every write comes after the fetch has resolved, and the
\* index is written after all post pages.
C29_WritesOnlyAfterFetchedPosts ==
    /\ op = "build" /\ blog.log # <<>> =>
           /\ pc = "done"
           /\ fetchedPosts.kind = "array"
           /\ Len(fetchedPosts.list) >= 1
    /\ Done("build") /\ fetchedPosts = NotFetched =>
           /\ exit = "exit 1"
           /\ blog.log = <<>>
    /\ Done("build") /\ fetchedPosts = Fetched(<<>>) =>
           /\ exit = "exit 0"
           /\ blog.log = <<>>
    /\ op = "build" =>
           \A i \in 1..Len(blog.log) :
               /\ i <= Len(fetchedPosts.list) =>
                      blog.log[i] = PostFilename(fetchedPosts.list[i])
               /\ i > Len(fetchedPosts.list) =>
                      /\ i = Len(fetchedPosts.list) + 1
                      /\ blog.log[i] = IndexFilename
                      /\ exit = "exit 0"

\* two post pages and then the index have been written
C29_Witness ==
    /\ Done("build")
    /\ exit = "exit 0"
    /\ blog.log = <<<<"a", ".", "h", "t", "m", "l">>, <<"b", ".", "h", "t", "m", "l">>, IndexFilename>>

====
